---------------------------- MODULE Spec2Model ----------------------------
(***************************************************************************)
(* A model of porepy's degree-of-freedom manager                           *)
(* (src/porepy/numerics/mixed_dim/dof_manager.py, class DofManager) and of *)
(* its forward-mode automatic differentiation                              *)
(* (src/porepy/numerics/ad/forward_mode.py, initAdArrays and Ad_array).    *)
(*                                                                         *)
(* The mixed-dimensional grid (mdg) is a list of subdomains and a list of  *)
(* interfaces, each with a data dictionary.  The DofManager is built from  *)
(* the PRIMARY_VARIABLES entries of those dictionaries; afterwards it      *)
(* answers index queries and moves vectors between a global ordering and   *)
(* data[STATE][var] / data[STATE][ITERATE][var].                           *)
(*                                                                         *)
(* Python indices are 0-based and are kept 0-based here: the Python value  *)
(* a[i] of an array modelled by the sequence s is s[i + 1].                *)
(***************************************************************************)
EXTENDS Integers, Sequences, FiniteSets, TLC

(***************************************************************************)
(* Bounds of the model.                                                    *)
(***************************************************************************)
\* largest number of blocks of a registry
MaxBlocks == 3
\* longest explicit grids / variables list passed to an operation
MaxSel == 2
\* number of distribute_variable calls in one behaviour
MaxCalls == 2
\* number of operations on heap objects in one behaviour
MaxOps == 3
\* number of Ad_array operations after initAdArrays in one behaviour
MaxAdOps == 2
\* depth of the Python call stack at which RecursionError is raised
RecursionLimit == 3
\* largest magnitude of a value of an operand, largest exponent of __rpow__
MaxValue == 30
MaxExponent == 4

(***************************************************************************)
(* Grids.  sd1, sd2 are pp.Grid objects, intf1 is a pp.MortarGrid.         *)
(***************************************************************************)
SubdomainGrids == {"sd1", "sd2"}
InterfaceGrids == {"intf1"}
GridLike == SubdomainGrids \cup InterfaceGrids
VariableNames == {"p", "q"}

num_cells == [sd1 |-> 1, sd2 |-> 2, intf1 |-> 1]
num_faces == [sd1 |-> 2, sd2 |-> 1, intf1 |-> 2]
num_nodes == [sd1 |-> 3, sd2 |-> 1, intf1 |-> 2]

\* isinstance(g, pp.Grid), isinstance(g, pp.MortarGrid); obj = [type, id]
PyGrid(g) == [type |-> IF g \in InterfaceGrids THEN "MortarGrid" ELSE "Grid", id |-> <<g>>]
PyTuple(t) == [type |-> "tuple", id |-> t]
isinstance(obj, cls) == obj.type = cls

(***************************************************************************)
(* Python containers.  A dict is the sequence of its items <<key, value>>  *)
(* in insertion order.                                                     *)
(***************************************************************************)
DictHas(d, k) == \E i \in 1..Len(d) : d[i][1] = k
DictGet(d, k) == d[CHOOSE i \in 1..Len(d) : d[i][1] = k][2]
DictGetDefault(d, k, dflt) == IF DictHas(d, k) THEN DictGet(d, k) ELSE dflt
DictSet(d, k, v) ==
    IF DictHas(d, k)
    THEN [i \in 1..Len(d) |-> IF d[i][1] = k THEN <<k, v>> ELSE d[i]]
    ELSE Append(d, <<k, v>>)
DictKeys(d) == [i \in 1..Len(d) |-> d[i][1]]

\* the elements of a sequence
Elems(s) == {s[i] : i \in 1..Len(s)}

RECURSIVE SeqSum(_)
SeqSum(s) == IF s = <<>> THEN 0 ELSE Head(s) + SeqSum(Tail(s))

\* np.cumsum
cumsum(s) == [i \in 1..Len(s) |-> SeqSum(SubSeq(s, 1, i))]

\* np.arange(a, b)
arange(a, b) == IF b <= a THEN <<>> ELSE [i \in 1..(b - a) |-> a + i - 1]

RECURSIVE concatenate(_)
concatenate(ss) == IF ss = <<>> THEN <<>> ELSE Head(ss) \o concatenate(Tail(ss))

\* np.argmax of a boolean array: the first True position, 0 when there is none
argmax(b) ==
    IF \E i \in 1..Len(b) : b[i]
    THEN (CHOOSE i \in 1..Len(b) : b[i] /\ \A j \in 1..(i - 1) : ~b[j]) - 1
    ELSE 0

\* all sequences over S of length at most n
SeqsUpTo(S, n) == UNION {[1..k -> S] : k \in 0..n}

\* all orders in which list(set(...)) may enumerate the set S
ListOfSet(S) == {s \in [1..Cardinality(S) -> S] : Elems(s) = S}

\* itertools.product(xs, ys)
product(xs, ys) ==
    [k \in 1..(Len(xs) * Len(ys)) |->
        <<xs[((k - 1) \div Len(ys)) + 1], ys[((k - 1) % Len(ys)) + 1]>>]

(***************************************************************************)
(* Results of a call: a returned value or a raised exception.              *)
(***************************************************************************)
Ok(v) == [err |-> "none", key |-> <<>>, val |-> v, pair |-> <<>>]
OkPair(gv) == [err |-> "none", key |-> <<>>, val |-> <<>>, pair |-> gv]
Raise(e, k) == [err |-> e, key |-> k, val |-> <<>>, pair |-> <<>>]

VARIABLES
    mdg,        \* the grid: subdomains, interfaces, PRIMARY_VARIABLES of each
    block_dof,  \* DofManager.block_dof: dict (grid, variable) -> block index
    full_dof,   \* DofManager.full_dof: number of dofs of each block
    data,       \* data[g]: the STATE and ITERATE dictionaries of grid g
    ncalls,     \* distribute_variable calls so far
    ret,        \* the last call: its name, its arguments, and what it returned
                \* (val: an array, pair: a (grid, variable) tuple) or raised
    heap,       \* the objects with identity: arrays, matrices, Ad_array objects
    refs,       \* who holds which array: the STATE / ITERATE dictionaries, the caller
    pool,       \* the Ad_array objects the caller holds
    out,        \* the last Ad_array operation: its operands and its outcome
    nops        \* operations on heap objects so far

\* the variables of the DofManager, and those of the objects on the heap
dofVars == <<mdg, block_dof, full_dof, data, ncalls, ret>>
memVars == <<heap, refs, pool, out, nops>>

vars == <<mdg, block_dof, full_dof, data, ncalls, ret, heap, refs, pool, out, nops>>

(***************************************************************************)
(* DofManager.__init__                                                     *)
(***************************************************************************)
\* total_local_dofs of a variable on a subdomain (lines 76-80)
TotalLocalDofsSd(sd, local_dofs) ==
    num_cells[sd] * DictGetDefault(local_dofs, "cells", 0)
    + num_faces[sd] * DictGetDefault(local_dofs, "faces", 0)
    + num_nodes[sd] * DictGetDefault(local_dofs, "nodes", 0)

\* a faulty variant: an interface counted like a subdomain
TotalLocalDofsIntf_WithFacesAndNodes(intf, local_dofs) ==
    num_cells[intf] * DictGetDefault(local_dofs, "cells", 0)
    + num_faces[intf] * DictGetDefault(local_dofs, "faces", 0)
    + num_nodes[intf] * DictGetDefault(local_dofs, "nodes", 0)

\* total_local_dofs of a variable on an interface (line 96)
TotalLocalDofsIntf(intf, local_dofs) ==
    num_cells[intf] * DictGetDefault(local_dofs, "cells", 0)

\* a faulty variant: the block counter is not advanced
RegisterVariable_NoIncrement(reg, g, local_var, local_dofs, is_intf) ==
    [block_dof |-> DictSet(reg.block_dof, <<g, local_var>>, reg.block_dof_counter),
     block_dof_counter |-> reg.block_dof_counter,
     full_dof |-> Append(reg.full_dof,
                         IF is_intf THEN TotalLocalDofsIntf(g, local_dofs)
                         ELSE TotalLocalDofsSd(g, local_dofs))]

\* one pass of the inner loop: block_dof[(g, local_var)] = block_dof_counter, ...
RegisterVariable(reg, g, local_var, local_dofs, is_intf) ==
    [block_dof |-> DictSet(reg.block_dof, <<g, local_var>>, reg.block_dof_counter),
     block_dof_counter |-> reg.block_dof_counter + 1,
     full_dof |-> Append(reg.full_dof,
                         IF is_intf THEN TotalLocalDofsIntf(g, local_dofs)
                         ELSE TotalLocalDofsSd(g, local_dofs))]

\* the inner loops over data[pp.PRIMARY_VARIABLES].items()
RECURSIVE RegisterVariables(_, _, _, _)
RegisterVariables(reg, g, items, is_intf) ==
    IF items = <<>> THEN reg
    ELSE RegisterVariables(
             RegisterVariable(reg, g, Head(items)[1], Head(items)[2], is_intf),
             g, Tail(items), is_intf)

\* the outer loops over mdg.subdomains() and mdg.interfaces()
RECURSIVE RegisterGrids(_, _, _, _)
RegisterGrids(reg, grids, prim, is_intf) ==
    IF grids = <<>> THEN reg
    ELSE LET g == Head(grids)
             reg1 == IF ~prim[g].present THEN reg
                     ELSE RegisterVariables(reg, g, prim[g].vars, is_intf)
         IN  RegisterGrids(reg1, Tail(grids), prim, is_intf)

DofManagerInit(m) ==
    LET reg0 == [block_dof |-> <<>>, block_dof_counter |-> 0, full_dof |-> <<>>]
        reg1 == RegisterGrids(reg0, m.subdomains, m.prim, FALSE)
        reg2 == RegisterGrids(reg1, m.interfaces, m.prim, TRUE)
    IN  [block_dof |-> reg2.block_dof, full_dof |-> reg2.full_dof]

(***************************************************************************)
(* Grids the DofManager is built from.  A dofs dictionary maps some of     *)
(* "cells", "faces", "nodes" to a multiplicity; data[PRIMARY_VARIABLES]    *)
(* is absent or maps variable names to dofs dictionaries.                  *)
(***************************************************************************)
DofDicts ==
    { <<>>,
      << <<"cells", 1>> >>,
      << <<"faces", 1>> >>,
      << <<"cells", 1>>, <<"nodes", 1>> >> }

PrimaryVariables ==
    {s \in SeqsUpTo(VariableNames \X DofDicts, Cardinality(VariableNames)) :
        \A i, j \in 1..Len(s) : s[i][1] = s[j][1] => i = j}

GridData ==
    {[present |-> FALSE, vars |-> <<>>]}
    \cup {[present |-> TRUE, vars |-> s] : s \in PrimaryVariables}

NumDeclared(pr) == SeqSum([i \in 1..3 |-> Len(pr[<<"sd1", "sd2", "intf1">>[i]].vars)])

\* every grid with at most MaxBlocks declared variables in total
AllMdgs ==
    {[subdomains |-> s, interfaces |-> <<"intf1">>, prim |-> pr] :
        s \in ListOfSet(SubdomainGrids),
        pr \in {q \in [GridLike -> GridData] : NumDeclared(q) <= MaxBlocks}}

\* sd1 and sd2 carry a cell variable p (blocks of 1 and 2 dofs)
MdgTwoSubdomains ==
    [subdomains |-> <<"sd1", "sd2">>, interfaces |-> <<"intf1">>,
     prim |-> [sd1 |-> [present |-> TRUE, vars |-> << <<"p", << <<"cells", 1>> >> >> >>],
               sd2 |-> [present |-> TRUE, vars |-> << <<"p", << <<"cells", 1>> >> >> >>],
               intf1 |-> [present |-> FALSE, vars |-> <<>>]]]

\* sd1 carries p and a q without dofs, intf1 carries a q declared on cells and faces
MdgWithInterface ==
    [subdomains |-> <<"sd1", "sd2">>, interfaces |-> <<"intf1">>,
     prim |-> [sd1 |-> [present |-> TRUE,
                        vars |-> << <<"p", << <<"cells", 1>> >> >>, <<"q", <<>> >> >>],
               sd2 |-> [present |-> FALSE, vars |-> <<>>],
               intf1 |-> [present |-> TRUE,
                          vars |-> << <<"q", << <<"cells", 1>>, <<"faces", 1>> >> >> >>]]]

\* no grid declares a variable
MdgEmpty ==
    [subdomains |-> <<"sd1", "sd2">>, interfaces |-> <<"intf1">>,
     prim |-> [sd1 |-> [present |-> TRUE, vars |-> <<>>],
               sd2 |-> [present |-> FALSE, vars |-> <<>>],
               intf1 |-> [present |-> FALSE, vars |-> <<>>]]]

StoreMdgs == {MdgTwoSubdomains, MdgWithInterface, MdgEmpty}

(***************************************************************************)
(* Index queries.                                                          *)
(***************************************************************************)
\* np.hstack((0, np.cumsum(self.full_dof)))
dof_start == <<0>> \o cumsum(full_dof)

num_dofs == SeqSum(full_dof)

\* a faulty variant: an unregistered pair gets an empty range (dict.get with a default)
_block_range_from_grid_and_var_Default(g, variable) ==
    IF ~DictHas(block_dof, <<g, variable>>) THEN Ok(<<0, 0>>)
    ELSE LET block_ind == DictGet(block_dof, <<g, variable>>)
         IN  Ok(<<dof_start[block_ind + 1], dof_start[block_ind + 2]>>)

\* dof_start[block_ind], dof_start[block_ind + 1]
_block_range_from_grid_and_var(g, variable) ==
    IF ~DictHas(block_dof, <<g, variable>>) THEN Raise("KeyError", <<g, variable>>)
    ELSE LET block_ind == DictGet(block_dof, <<g, variable>>)
         IN  IF block_ind < 0 \/ block_ind + 2 > Len(dof_start)
             THEN Raise("IndexError", <<>>)
             ELSE Ok(<<dof_start[block_ind + 1], dof_start[block_ind + 2]>>)

grid_and_variable_to_dofs(grid, variable) ==
    LET r == _block_range_from_grid_and_var(grid, variable)
    IN  IF r.err # "none" THEN r ELSE Ok(arange(r.val[1], r.val[2]))

\* variables: a list of objects [is_variable, domain, name]
RECURSIVE dofs_of_loop(_, _)
dofs_of_loop(variables, dofs) ==
    IF variables = <<>> THEN Ok(concatenate(dofs))
    ELSE LET v == Head(variables)
             r == grid_and_variable_to_dofs(v.domain, v.name)
         IN  IF r.err # "none" THEN r
             ELSE dofs_of_loop(Tail(variables), Append(dofs, r.val))

dofs_of(variables) ==
    IF ~\A i \in 1..Len(variables) : variables[i].is_variable
    THEN Raise("ValueError", <<>>)
    ELSE dofs_of_loop(variables, <<>>)

\* the pairs of a sequence that are registered, each once, in the order of their
\* first occurrence: the keys of the dict built by pairs[(g, var)] = ...
RECURSIVE FirstOccurrences(_, _)
FirstOccurrences(pairs, seen) ==
    IF pairs = <<>> THEN seen
    ELSE FirstOccurrences(
             Tail(pairs),
             IF DictHas(block_dof, Head(pairs)) /\ Head(pairs) \notin Elems(seen)
             THEN Append(seen, Head(pairs)) ELSE seen)

\* grid_and_variable_block_range with return_str=False: the (start, end) of the
\* pairs in the order of the returned dictionary.  With "grids" the outer loop
\* is over grids, with "variables" over variables.
grid_and_variable_block_range(grids, variables, sort_by) ==
    IF sort_by \notin {"grids", "variables", ""} THEN Raise("ValueError", <<>>)
    ELSE LET pairs == IF sort_by = "variables"
                      THEN [k \in 1..Len(product(variables.list, grids.list)) |->
                               <<product(variables.list, grids.list)[k][2],
                                 product(variables.list, grids.list)[k][1]>>]
                      ELSE product(grids.list, variables.list)
             keys == FirstOccurrences(pairs, <<>>)
         IN  Ok(concatenate([k \in 1..Len(keys) |->
                    _block_range_from_grid_and_var(keys[k][1], keys[k][2]).val]))

\* dof_var(var) with return_projection=False; var is a list of names
dof_var(var) ==
    LET grids == mdg.subdomains \o mdg.interfaces
        pairs == product(grids, var)
        local_dofs(k) ==
            IF DictHas(block_dof, pairs[k])
            THEN arange(dof_start[DictGet(block_dof, pairs[k]) + 1],
                        dof_start[DictGet(block_dof, pairs[k]) + 2])
            ELSE <<>>
    IN  Ok(concatenate([k \in 1..Len(pairs) |-> local_dofs(k)]))

\* inv_block_dof = {v: k for k, v in self.block_dof.items()}
inv_block_dof ==
    LET ids == {block_dof[i][2] : i \in 1..Len(block_dof)}
        last(v) == CHOOSE i \in 1..Len(block_dof) :
                       /\ block_dof[i][2] = v
                       /\ \A j \in (i + 1)..Len(block_dof) : block_dof[j][2] # v
    IN  [v \in ids |-> block_dof[last(v)][1]]

\* a faulty variant: the comparison with the block starts is not strict
dof_to_grid_and_variable_NotStrict(ind) ==
    IF ind >= dof_start[Len(dof_start)] THEN Raise("ValueError", <<>>)
    ELSE IF ind < 0 THEN Raise("ValueError", <<>>)
    ELSE LET block_ind == argmax([i \in 1..Len(dof_start) |-> dof_start[i] >= ind]) - 1
         IN  IF block_ind \notin DOMAIN inv_block_dof THEN Raise("KeyError", <<>>)
             ELSE OkPair(inv_block_dof[block_ind])

dof_to_grid_and_variable(ind) ==
    IF ind >= dof_start[Len(dof_start)] THEN Raise("ValueError", <<>>)
    ELSE IF ind < 0 THEN Raise("ValueError", <<>>)
    ELSE LET block_ind == argmax([i \in 1..Len(dof_start) |-> dof_start[i] > ind]) - 1
         IN  IF block_ind \notin DOMAIN inv_block_dof THEN Raise("KeyError", <<>>)
             ELSE OkPair(inv_block_dof[block_ind])

(***************************************************************************)
(* Objects with identity.  heap[id] is the object with identity id.  A     *)
(* numpy array is an object that owns its entries (base = 0) or a view of  *)
(* len entries of the array base, from offset off on.  A name or a         *)
(* dictionary entry holds the identity of an object, not the object.       *)
(***************************************************************************)
\* np.ndarray with entries a and dtype float64 or int64, owning its data
NdArray(a, dtype) ==
    [kind |-> "ndarray", dtype |-> dtype, a |-> a, base |-> 0, off |-> 0, len |-> Len(a)]

\* the array b[off : off + len] of the array with identity b: a view of b
View(h, b, off, len) ==
    [kind |-> "ndarray", dtype |-> h[b].dtype, a |-> <<>>,
     base |-> IF h[b].base = 0 THEN b ELSE h[b].base,
     off |-> h[b].off + off, len |-> len]

\* the identity of the array that owns the entries of the array id
Owner(h, id) == IF h[id].base = 0 THEN id ELSE h[id].base

\* the entries of an array object, and of the array with identity id
ObjContents(h, obj) ==
    IF obj.base = 0 THEN obj.a
    ELSE SubSeq(h[obj.base].a, obj.off + 1, obj.off + obj.len)
Contents(h, id) == ObjContents(h, h[id])

\* a new object on the heap; its identity is Len of the new heap
Alloc(h, obj) == Append(h, obj)

\* arr[i] = x, in place (i is 0-based)
SetItem(h, id, i, x) ==
    [h EXCEPT ![Owner(h, id)].a[h[id].off + i + 1] = x]

\* the entries of the dictionaries data[pp.STATE] (it = FALSE) and
\* data[pp.STATE][pp.ITERATE] (it = TRUE) of the grids: <<grid, variable, it>>
Slots == GridLike \X VariableNames \X BOOLEAN

\* nothing is stored and the caller holds no array: 0 is no object
NoRefs ==
    [store |-> [sl \in Slots |-> 0], values |-> 0, result |-> 0, last |-> "none"]

\* no Ad_array operation is on record
NoOut == [op |-> "none"]

MemInit ==
    /\ heap = <<>>
    /\ refs = NoRefs
    /\ pool = <<>>
    /\ out = NoOut
    /\ nops = 0

(***************************************************************************)
(* The state after construction, and the calls.                            *)
(***************************************************************************)
\* the registered (grid, variable) pairs
Registered == {block_dof[i][1] : i \in 1..Len(block_dof)}

\* the pairs declared in the PRIMARY_VARIABLES of m
Declared(m) ==
    UNION {{<<g, m.prim[g].vars[i][1]>> : i \in 1..Len(m.prim[g].vars)} :
              g \in {h \in GridLike : m.prim[h].present}}

NoSlot == [has |-> FALSE, v |-> <<>>]
Slot(v) == [has |-> TRUE, v |-> v]

\* a data dictionary without pp.STATE
NoState ==
    [has_state |-> FALSE, has_iterate |-> FALSE,
     state |-> [n \in VariableNames |-> NoSlot],
     iterate |-> [n \in VariableNames |-> NoSlot]]

Called(op, args, res) ==
    [op |-> op, args |-> args, err |-> res.err, key |-> res.key,
     val |-> res.val, pair |-> res.pair]

\* no call is on record
NoCall == Called("none", <<>>, Ok(<<>>))

\* A call is made once the caller has taken the result of the previous one.
Ready == ret.op = "none"

InitWith(mdgs) ==
    /\ mdg \in mdgs
    /\ block_dof = DofManagerInit(mdg).block_dof
    /\ full_dof = DofManagerInit(mdg).full_dof
    /\ data = [g \in GridLike |-> NoState]
    /\ ncalls = 0
    /\ ret = NoCall
    /\ MemInit

(***************************************************************************)
(* distribute_variable, assemble_variable, get_variable_values             *)
(***************************************************************************)
\* a faulty variant: the block is read from the start of values
Take_FromStart(values, dof_ind) == [i \in 1..Len(dof_ind) |-> values[i]]

\* values[dof_ind]
Take(values, dof_ind) == [i \in 1..Len(dof_ind) |-> values[dof_ind[i] + 1]]

\* elementwise a + b of two arrays of one length
ArrayAdd(a, b) == [i \in 1..Len(a) |-> a[i] + b[i]]

\* list(set([key[0] for key in self.block_dof])), list(set([key[1] ...])):
\* a list in an order the caller does not control
GridsOfBlocks == {block_dof[i][1][1] : i \in 1..Len(block_dof)}
VariablesOfBlocks == {block_dof[i][1][2] : i \in 1..Len(block_dof)}

\* a faulty variant: a value for the iterate is stored as the state as well
Store_Both(dg, var, to_iterate, v) ==
    IF to_iterate THEN [dg EXCEPT !.iterate[var] = Slot(v), !.state[var] = Slot(v)]
    ELSE [dg EXCEPT !.state[var] = Slot(v)]

\* data[pp.STATE][var] = v, or data[pp.STATE][pp.ITERATE][var] = v
Store(dg, var, to_iterate, v) ==
    IF to_iterate THEN [dg EXCEPT !.iterate[var] = Slot(v)]
    ELSE [dg EXCEPT !.state[var] = Slot(v)]

\* a faulty variant: an additive call overwrites
distribute_body_Overwrite(d, g, var, values, additive, to_iterate) ==
    LET dof_ind == grid_and_variable_to_dofs(g, var).val
        dg1 == [d[g] EXCEPT !.has_state = TRUE]
        dg2 == IF to_iterate THEN [dg1 EXCEPT !.has_iterate = TRUE] ELSE dg1
        vals == Take(values, dof_ind)
        old == IF to_iterate THEN dg2.iterate[var] ELSE dg2.state[var]
    IN  IF additive /\ ~old.has
        THEN [data |-> [d EXCEPT ![g] = dg2], res |-> Raise("KeyError", <<var>>)]
        ELSE [data |-> [d EXCEPT ![g] = Store(dg2, var, to_iterate, vals)],
              res |-> Ok(<<>>)]

\* a faulty variant: an additive call takes a missing value to be zero
distribute_body_ZeroDefault(d, g, var, values, additive, to_iterate) ==
    LET dof_ind == grid_and_variable_to_dofs(g, var).val
        dg1 == [d[g] EXCEPT !.has_state = TRUE]
        dg2 == IF to_iterate THEN [dg1 EXCEPT !.has_iterate = TRUE] ELSE dg1
        vals == Take(values, dof_ind)
        old == IF to_iterate THEN dg2.iterate[var] ELSE dg2.state[var]
    IN  [data |-> [d EXCEPT ![g] = Store(dg2, var, to_iterate,
                                         IF additive /\ old.has THEN ArrayAdd(old.v, vals)
                                         ELSE vals)],
         res |-> Ok(<<>>)]

\* one pass of the loop body (lines 500-531) for a registered (g, var)
distribute_body(d, g, var, values, additive, to_iterate) ==
    LET dof_ind == grid_and_variable_to_dofs(g, var).val
        \* if pp.STATE not in data: data[pp.STATE] = {}
        dg1 == [d[g] EXCEPT !.has_state = TRUE]
        \* if to_iterate and pp.ITERATE not in data[pp.STATE]: ... = {}
        dg2 == IF to_iterate THEN [dg1 EXCEPT !.has_iterate = TRUE] ELSE dg1
        vals == Take(values, dof_ind)
        old == IF to_iterate THEN dg2.iterate[var] ELSE dg2.state[var]
    IN  IF additive
        THEN IF ~old.has
             THEN [data |-> [d EXCEPT ![g] = dg2], res |-> Raise("KeyError", <<var>>)]
             ELSE [data |-> [d EXCEPT ![g] = Store(dg2, var, to_iterate, ArrayAdd(old.v, vals))],
                   res |-> Ok(<<>>)]
        ELSE [data |-> [d EXCEPT ![g] = Store(dg2, var, to_iterate, vals)],
              res |-> Ok(<<>>)]

\* a faulty variant: the pairs that are not registered are not skipped
RECURSIVE distribute_loop_NoSkip(_, _, _, _, _)
distribute_loop_NoSkip(d, pairs, values, additive, to_iterate) ==
    IF pairs = <<>> THEN [data |-> d, res |-> Ok(<<>>)]
    ELSE LET r == distribute_body(d, Head(pairs)[1], Head(pairs)[2], values, additive,
                                  to_iterate)
         IN  IF r.res.err # "none" THEN r
             ELSE distribute_loop_NoSkip(r.data, Tail(pairs), values, additive, to_iterate)

\* for g, var in itertools.product(grids, variables)
RECURSIVE distribute_loop(_, _, _, _, _)
distribute_loop(d, pairs, values, additive, to_iterate) ==
    IF pairs = <<>> THEN [data |-> d, res |-> Ok(<<>>)]
    ELSE LET g == Head(pairs)[1]
             var == Head(pairs)[2]
         IN  IF ~DictHas(block_dof, <<g, var>>)
             THEN distribute_loop(d, Tail(pairs), values, additive, to_iterate)
             ELSE LET r == distribute_body(d, g, var, values, additive, to_iterate)
                  IN  IF r.res.err # "none" THEN r
                      ELSE distribute_loop(r.data, Tail(pairs), values, additive, to_iterate)

\* a faulty variant: a pair that occurs twice in the product is processed once
distribute_variable_Unique(d, values, grids, variables, additive, to_iterate) ==
    LET pairs == product(grids.list, variables.list)
        firsts == SelectSeq([k \in 1..Len(pairs) |-> k],
                            LAMBDA k : \A j \in 1..(k - 1) : pairs[j] # pairs[k])
    IN  distribute_loop(d, [i \in 1..Len(firsts) |-> pairs[firsts[i]]], values, additive,
                        to_iterate)

\* grids, variables: [none |-> the argument is None, list |-> the list looped over]
distribute_variable(d, values, grids, variables, additive, to_iterate) ==
    distribute_loop(d, product(grids.list, variables.list), values, additive, to_iterate)

\* a faulty variant: the state is read whatever from_iterate says
Lookup_StateOnly(dg, var, from_iterate) ==
    IF ~dg.has_state THEN Raise("KeyError", <<"pp.STATE">>)
    ELSE IF ~dg.state[var].has THEN Raise("KeyError", <<var>>) ELSE Ok(dg.state[var].v)

\* the stored array read by assemble_variable, or the KeyError of the lookup
Lookup(dg, var, from_iterate) ==
    IF ~dg.has_state THEN Raise("KeyError", <<"pp.STATE">>)
    ELSE IF from_iterate /\ ~dg.has_iterate THEN Raise("KeyError", <<"pp.ITERATE">>)
    ELSE LET slot == IF from_iterate THEN dg.iterate[var] ELSE dg.state[var]
         IN  IF ~slot.has THEN Raise("KeyError", <<var>>) ELSE Ok(slot.v)

\* values[dof_ind] = stored
Put(values, dof_ind, stored) ==
    [i \in 1..Len(values) |->
        IF \E k \in 1..Len(dof_ind) : dof_ind[k] + 1 = i
        THEN stored[CHOOSE k \in 1..Len(dof_ind) : dof_ind[k] + 1 = i]
        ELSE values[i]]

RECURSIVE assemble_loop(_, _, _)
assemble_loop(values, pairs, from_iterate) ==
    IF pairs = <<>> THEN Ok(values)
    ELSE LET g == Head(pairs)[1]
             var == Head(pairs)[2]
         IN  IF ~DictHas(block_dof, <<g, var>>)
             THEN assemble_loop(values, Tail(pairs), from_iterate)
             ELSE LET dof_ind == grid_and_variable_to_dofs(g, var).val
                      stored == Lookup(data[g], var, from_iterate)
                  IN  IF stored.err # "none" THEN stored
                      ELSE assemble_loop(Put(values, dof_ind, stored.val),
                                         Tail(pairs), from_iterate)

assemble_variable(grids, variables, from_iterate) ==
    assemble_loop([i \in 1..num_dofs |-> 0], product(grids.list, variables.list),
                  from_iterate)

\* for grid, name in self.block_dof.items(): grid is bound to the key, a tuple,
\* and name to the block index.  bound: the grid whose dictionary the local
\* variable data holds, "unbound" before its first assignment.
RECURSIVE get_variable_values_loop(_, _, _, _)
get_variable_values_loop(items, bound, values, from_iterate) ==
    IF items = <<>>
    THEN IF values # <<>> THEN Ok(concatenate(values)) ELSE Ok(<<>>)
    ELSE LET grid == PyTuple(Head(items)[1])
             name == Head(items)[2]
             bound1 == IF isinstance(grid, "Grid") \/ isinstance(grid, "MortarGrid")
                       THEN grid.id[1] ELSE bound
         IN  IF bound1 = "unbound" THEN Raise("UnboundLocalError", <<"data">>)
             \* name is an integer, which is the key of no stored array
             ELSE Raise("KeyError", <<"No values stored for variable">>)

get_variable_values(variables_is_none, from_iterate) ==
    IF ~variables_is_none THEN Raise("NotImplementedError", <<>>)
    ELSE get_variable_values_loop(block_dof, "unbound", <<>>, from_iterate)

\* the vectors handed to distribute_variable: two arrays of num_dofs() entries
TestVectors == {[i \in 1..num_dofs |-> i], [i \in 1..num_dofs |-> 2 * i + 1]}

GridArgs ==
    {[none |-> TRUE, list |-> o] : o \in ListOfSet(GridsOfBlocks)}
    \cup {[none |-> FALSE, list |-> l] : l \in SeqsUpTo(GridLike, MaxSel)}

VariableArgs ==
    {[none |-> TRUE, list |-> o] : o \in ListOfSet(VariablesOfBlocks)}
    \cup {[none |-> FALSE, list |-> l] : l \in SeqsUpTo(VariableNames, MaxSel)}

\* a faulty variant: the call registers the variables declared by now
DistributeVariable_Rebuild(values, grids, variables, additive, to_iterate) ==
    /\ Ready
    /\ ncalls < MaxCalls
    /\ LET r == distribute_variable(data, values, grids, variables, additive, to_iterate)
       IN  /\ data' = r.data
           /\ ret' = Called("distribute_variable",
                            [values |-> values, grids |-> grids, variables |-> variables,
                             additive |-> additive, to_iterate |-> to_iterate],
                            r.res)
    /\ ncalls' = ncalls + 1
    /\ block_dof' = DofManagerInit(mdg).block_dof
    /\ full_dof' = DofManagerInit(mdg).full_dof
    /\ UNCHANGED <<mdg, memVars>>

DistributeVariable(values, grids, variables, additive, to_iterate) ==
    /\ Ready
    /\ ncalls < MaxCalls
    /\ LET r == distribute_variable(data, values, grids, variables, additive, to_iterate)
       IN  /\ data' = r.data
           /\ ret' = Called("distribute_variable",
                            [values |-> values, grids |-> grids, variables |-> variables,
                             additive |-> additive, to_iterate |-> to_iterate],
                            r.res)
    /\ ncalls' = ncalls + 1
    /\ UNCHANGED <<mdg, block_dof, full_dof, memVars>>

\* the same argument: None again (the list order may differ), or the same list
SameSelection(a, b) == a.none = b.none /\ (a.none \/ a.list = b.list)

\* distribute_variable returns nothing: assemble_variable may follow it at once with
\* the same grids and variables, which is the round trip.  The record of the
\* assemble call keeps the record of the call it followed.
RoundTrip(grids, variables) ==
    /\ ret.op = "distribute_variable"
    /\ SameSelection(ret.args.grids, grids)
    /\ SameSelection(ret.args.variables, variables)

AssembleVariable(grids, variables, from_iterate) ==
    /\ Ready \/ RoundTrip(grids, variables)
    /\ ret' = Called("assemble_variable",
                     [grids |-> grids, variables |-> variables,
                      from_iterate |-> from_iterate, after |-> ret],
                     assemble_variable(grids, variables, from_iterate))
    /\ UNCHANGED <<mdg, block_dof, full_dof, data, ncalls, memVars>>

GetVariableValues(variables_is_none, from_iterate) ==
    /\ Ready
    /\ ret' = Called("get_variable_values",
                     [variables_is_none |-> variables_is_none,
                      from_iterate |-> from_iterate],
                     get_variable_values(variables_is_none, from_iterate))
    /\ UNCHANGED <<mdg, block_dof, full_dof, data, ncalls, memVars>>

GridAndVariableToDofs(grid, variable) ==
    /\ Ready
    /\ ret' = Called("grid_and_variable_to_dofs", <<grid, variable>>,
                     grid_and_variable_to_dofs(grid, variable))
    /\ UNCHANGED <<mdg, block_dof, full_dof, data, ncalls, memVars>>

\* the objects passed to dofs_of: two pp.ad.Variable objects and a plain string
VariableObjects ==
    { [is_variable |-> TRUE, domain |-> "sd1", name |-> "p"],
      [is_variable |-> TRUE, domain |-> "intf1", name |-> "q"],
      [is_variable |-> FALSE, domain |-> "sd1", name |-> "p"] }

DofsOf(variables) ==
    /\ Ready
    /\ ret' = Called("dofs_of", variables, dofs_of(variables))
    /\ UNCHANGED <<mdg, block_dof, full_dof, data, ncalls, memVars>>

DofToGridAndVariable(ind) ==
    /\ Ready
    /\ ret' = Called("dof_to_grid_and_variable", ind, dof_to_grid_and_variable(ind))
    /\ UNCHANGED <<mdg, block_dof, full_dof, data, ncalls, memVars>>

GridAndVariableBlockRange(grids, variables, sort_by) ==
    /\ Ready
    /\ ret' = Called("grid_and_variable_block_range",
                     [grids |-> grids, variables |-> variables, sort_by |-> sort_by],
                     grid_and_variable_block_range(grids, variables, sort_by))
    /\ UNCHANGED <<mdg, block_dof, full_dof, data, ncalls, memVars>>

DofVar(var) ==
    /\ Ready
    /\ ret' = Called("dof_var", var, dof_var(var))
    /\ UNCHANGED <<mdg, block_dof, full_dof, data, ncalls, memVars>>

NumDofs ==
    /\ Ready
    /\ ret' = Called("num_dofs", <<>>, Ok(<<num_dofs>>))
    /\ UNCHANGED <<mdg, block_dof, full_dof, data, ncalls, memVars>>

\* After construction a variable is added to data[pp.PRIMARY_VARIABLES] of a grid.
DeclareVariable(g, name, dofs) ==
    /\ Ready
    /\ Declared(mdg) = Registered
    /\ ~DictHas(mdg.prim[g].vars, name)
    /\ mdg' = [mdg EXCEPT !.prim[g] =
                  [present |-> TRUE, vars |-> DictSet(@.vars, name, dofs)]]
    /\ UNCHANGED <<block_dof, full_dof, data, ncalls, ret, memVars>>

\* The caller takes the result of the last call; the record of it is dropped.
TakeResult ==
    /\ ~Ready
    /\ ret' = NoCall
    /\ UNCHANGED <<mdg, block_dof, full_dof, data, ncalls, memVars>>

\* The guards that do not depend on the arguments stand before the quantifiers.
NextRegistry ==
    \/ Ready /\ \E g \in GridLike, n \in VariableNames : GridAndVariableToDofs(g, n)
    \/ Ready /\ \E vs \in SeqsUpTo(VariableObjects, MaxSel) : DofsOf(vs)
    \/ Ready /\ \E i \in -1..(num_dofs + 1) : DofToGridAndVariable(i)
    \/ NumDofs
    \/ TakeResult

\* grids or variables of the two block-listing calls: None, or a list of at most one
ShortGridArgs == {a \in GridArgs : a.none \/ Len(a.list) <= 1}
ShortVariableArgs == {a \in VariableArgs : a.none \/ Len(a.list) <= 1}

NextStore ==
    \/ /\ Ready /\ ncalls < MaxCalls
       /\ \E values \in TestVectors, grids \in GridArgs, variables \in VariableArgs,
             additive \in BOOLEAN, to_iterate \in BOOLEAN :
             DistributeVariable(values, grids, variables, additive, to_iterate)
    \/ /\ Ready \/ ret.op = "distribute_variable"
       /\ \E grids \in GridArgs, variables \in VariableArgs, from_iterate \in BOOLEAN :
             AssembleVariable(grids, variables, from_iterate)
    \/ Ready /\ \E none \in BOOLEAN, from_iterate \in BOOLEAN :
                   GetVariableValues(none, from_iterate)
    \/ TakeResult

Next == NextStore

Init == InitWith(StoreMdgs)

Spec == Init /\ [][Next]_vars

NextSnapshot ==
    \/ NextStore
    \/ NextRegistry
    \/ /\ Ready
       /\ \E grids \in ShortGridArgs, variables \in ShortVariableArgs,
             sort_by \in {"", "grids", "variables", "cells"} :
             GridAndVariableBlockRange(grids, variables, sort_by)
    \/ Ready /\ \E var \in SeqsUpTo(VariableNames, MaxSel) : DofVar(var)
    \/ Ready /\ \E g \in SubdomainGrids : DeclareVariable(g, "q", << <<"cells", 1>> >>)

InitSnapshot == InitWith({MdgWithInterface})

SpecSnapshot == InitSnapshot /\ [][NextSnapshot]_vars

InitRegistry == InitWith(AllMdgs)

SpecRegistry == InitRegistry /\ [][NextRegistry]_vars

(***************************************************************************)
(* Properties of the registry.                                             *)
(***************************************************************************)
BlockId(gv) == DictGet(block_dof, gv)
\* the global indices of a registered pair, as a set
DofSet(gv) == Elems(grid_and_variable_to_dofs(gv[1], gv[2]).val)
\* the sum of the widths of the blocks 0..k-1
WidthsBefore(k) == SeqSum(SubSeq(full_dof, 1, k))
HasZeroWidthBlock == \E k \in 1..Len(full_dof) : full_dof[k] = 0

Pos(seq, x) == CHOOSE i \in 1..Len(seq) : seq[i] = x
\* subdomains in the order of m.subdomains, then interfaces in the order of m.interfaces
GridRank(m, g) ==
    IF g \in Elems(m.subdomains) THEN Pos(m.subdomains, g)
    ELSE Len(m.subdomains) + Pos(m.interfaces, g)
DeclaredBefore(m, a, b) ==
    \/ GridRank(m, a[1]) < GridRank(m, b[1])
    \/ /\ a[1] = b[1]
       /\ Pos(DictKeys(m.prim[a[1]].vars), a[2]) < Pos(DictKeys(m.prim[a[1]].vars), b[2])
Multiplicity(dofs, k) ==
    IF \E i \in 1..Len(dofs) : dofs[i][1] = k
    THEN dofs[CHOOSE i \in 1..Len(dofs) : dofs[i][1] = k][2] ELSE 0
ExpectedWidth(m, gv) ==
    LET dofs == DictGet(m.prim[gv[1]].vars, gv[2])
    IN  IF gv[1] \in InterfaceGrids
        THEN num_cells[gv[1]] * Multiplicity(dofs, "cells")
        ELSE num_cells[gv[1]] * Multiplicity(dofs, "cells")
             + num_faces[gv[1]] * Multiplicity(dofs, "faces")
             + num_nodes[gv[1]] * Multiplicity(dofs, "nodes")

(* C2: dof_to_grid_and_variable(i) returns, for 0 <= i < num_dofs(), the one  *)
(* registered pair whose index range holds i (zero-width blocks included in   *)
(* the registry); for any other i, an empty registry included, it raises      *)
(* ValueError and returns no pair.                                            *)
C2_DofBijection ==
    ret.op = "dof_to_grid_and_variable" =>
        LET i == ret.args
        IN  IF 0 <= i /\ i < num_dofs
            THEN /\ ret.err = "none"
                 /\ ret.pair \in Registered
                 /\ i \in DofSet(ret.pair)
                 /\ \A gv \in Registered : i \in DofSet(gv) => gv = ret.pair
            ELSE ret.err = "ValueError" /\ ret.pair = <<>>

\* an index is resolved to a block that follows a zero-width block
C2_Witness ==
    /\ ret.op = "dof_to_grid_and_variable"
    /\ ret.err = "none"
    /\ ret.pair \in Registered
    /\ \E k \in 1..Len(full_dof) : full_dof[k] = 0 /\ k - 1 < BlockId(ret.pair)

(* C3: the index ranges of the registered pairs are pairwise disjoint, each is *)
(* the contiguous range that starts at the sum of the widths of the earlier    *)
(* blocks and has the width of its block, together they are                    *)
(* 0 .. num_dofs() - 1, num_dofs() is the sum of the sizes of the ranges, and  *)
(* it is 0 when no variable is declared.                                       *)
C3_BlockPartition ==
    /\ \A gv \in Registered :
          LET r == grid_and_variable_to_dofs(gv[1], gv[2])
              k == BlockId(gv)
          IN  /\ r.err = "none"
              /\ k \in 0..(Len(full_dof) - 1)
              /\ r.val = arange(WidthsBefore(k), WidthsBefore(k) + full_dof[k + 1])
    /\ \A a, b \in Registered : a # b => DofSet(a) \cap DofSet(b) = {}
    /\ UNION {DofSet(gv) : gv \in Registered} = 0..(num_dofs - 1)
    /\ num_dofs = SeqSum([i \in 1..Len(block_dof) |-> Cardinality(DofSet(block_dof[i][1]))])
    /\ Declared(mdg) = {} => num_dofs = 0

\* three blocks, one of them empty, and the range of a later block was asked for
C3_Witness ==
    /\ Len(block_dof) = 3
    /\ HasZeroWidthBlock
    /\ ret.op = "grid_and_variable_to_dofs"
    /\ ret.err = "none"
    /\ Len(ret.val) > 0
    /\ ret.val[1] > 0

(* C4: the registry built from mdg holds exactly the declared pairs, with the  *)
(* block ids 0, 1, 2, ... in the order: subdomains in the order given, then    *)
(* interfaces, the variables of a grid in declaration order; the width of a    *)
(* subdomain block is cells*per_cell + faces*per_face + nodes*per_node with    *)
(* a missing multiplicity counted as 0, that of an interface block             *)
(* cells*per_cell only.                                                        *)
C4_ConstructionOrder ==
    /\ Registered = Declared(mdg)
    /\ Len(block_dof) = Cardinality(Declared(mdg))
    /\ Len(full_dof) = Len(block_dof)
    /\ {block_dof[i][2] : i \in 1..Len(block_dof)} = 0..(Len(block_dof) - 1)
    /\ \A a, b \in Declared(mdg) : DeclaredBefore(mdg, a, b) <=> BlockId(a) < BlockId(b)
    /\ \A a \in Declared(mdg) : full_dof[BlockId(a) + 1] = ExpectedWidth(mdg, a)

\* sd2 is given before sd1, both carry a variable, and the interface declares
\* a variable with a node multiplicity
C4_Witness ==
    /\ mdg.subdomains = <<"sd2", "sd1">>
    /\ \A g \in GridLike : Len(mdg.prim[g].vars) = 1
    /\ Multiplicity(mdg.prim["intf1"].vars[1][2], "nodes") > 0
    /\ Len(block_dof) = 3

(* C9: grid_and_variable_to_dofs raises KeyError for every pair that is not    *)
(* registered and returns no range for it; dofs_of, given Variable objects of  *)
(* which one is unregistered, raises KeyError as well.                         *)
C9_UnregisteredLookupFails ==
    /\ (ret.op = "grid_and_variable_to_dofs" /\ <<ret.args[1], ret.args[2]>> \notin Registered)
          => (ret.err = "KeyError" /\ ret.val = <<>>)
    /\ (/\ ret.op = "dofs_of"
        /\ \A i \in 1..Len(ret.args) : ret.args[i].is_variable
        /\ \E i \in 1..Len(ret.args) : <<ret.args[i].domain, ret.args[i].name>> \notin Registered)
          => (ret.err = "KeyError" /\ ret.val = <<>>)

\* dofs_of fails on its second variable, after a first one with dofs
C9_Witness ==
    /\ ret.op = "dofs_of"
    /\ Len(ret.args) = 2
    /\ ret.args[1].is_variable /\ ret.args[2].is_variable
    /\ <<ret.args[1].domain, ret.args[1].name>> \in Registered
    /\ DofSet(<<ret.args[1].domain, ret.args[1].name>>) # {}
    /\ <<ret.args[2].domain, ret.args[2].name>> \notin Registered
    /\ ret.err = "KeyError"

(***************************************************************************)
(* Properties of distribute_variable, assemble_variable and                *)
(* get_variable_values.                                                    *)
(***************************************************************************)
\* the slot of a registered pair in the state (it = FALSE) or the iterate (it = TRUE)
Stored(d, gv, it) == IF it THEN d[gv[1]].iterate[gv[2]] ELSE d[gv[1]].state[gv[2]]
\* the pair is in the product of the two lists
Selected(gv, grids, variables) ==
    gv[1] \in Elems(grids.list) /\ gv[2] \in Elems(variables.list)
Width(gv) == full_dof[BlockId(gv) + 1]
\* the entries of the global vector values that belong to the block of gv
Slice(values, gv) == [j \in 1..Width(gv) |-> values[WidthsBefore(BlockId(gv)) + j]]
Scale(n, vec) == [j \in 1..Len(vec) |-> n * vec[j]]

\* assemble_variable(from_iterate=False) directly after
\* distribute_variable(v, additive=False, to_iterate=False) with the same selection
C1_Case ==
    /\ ret.op = "assemble_variable"
    /\ ~ret.args.from_iterate
    /\ ret.args.after.op = "distribute_variable"
    /\ ~ret.args.after.args.additive
    /\ ~ret.args.after.args.to_iterate

ProductOf(a) == product(a.grids.list, a.variables.list)
FailsAt(d, a, k) ==
    /\ ProductOf(a)[k] \in Registered
    /\ a.additive
    /\ ~Stored(d, ProductOf(a)[k], a.to_iterate).has
Processed(d, a) ==
    IF \E k \in 1..Len(ProductOf(a)) : FailsAt(d, a, k)
    THEN (CHOOSE k \in 1..Len(ProductOf(a)) :
              FailsAt(d, a, k) /\ \A j \in 1..(k - 1) : ~FailsAt(d, a, j)) - 1
    ELSE Len(ProductOf(a))
\* the number of times the loop writes the block of gv
Writes(d, a, gv) == Cardinality({k \in 1..Processed(d, a) : ProductOf(a)[k] = gv})

(* C5 as claimed, call by call: a distribute_variable call leaves a block it   *)
(* does not select as it was, sets a selected block to its slice of values     *)
(* when additive=False, and adds the slice, once, to the stored value of a     *)
(* selected block when additive=True.                                          *)
C5_OncePerSelectedBlock ==
    [][(Ready /\ ret'.op = "distribute_variable") =>
          \A gv \in Registered :
              LET a == ret'.args
                  old == Stored(data, gv, a.to_iterate)
                  new == Stored(data', gv, a.to_iterate)
              IN  IF ~Selected(gv, a.grids, a.variables) THEN new = old
                  ELSE IF a.additive
                       THEN old.has => new = Slot(ArrayAdd(old.v, Slice(a.values, gv)))
                       ELSE new = Slot(Slice(a.values, gv))]_vars

(* C5: call by call, with n the number of occurrences of the pair of a block   *)
(* among the pairs of the product of the lists that the call processed (all of *)
(* them, or those before the pair at which an additive call raised KeyError    *)
(* for want of a stored value): n = 0 leaves the stored value as it was, an    *)
(* additive=False call with n > 0 sets it to the slice, an additive=True call  *)
(* adds n times the slice.  The call raises KeyError exactly when it stops     *)
(* early.                                                                      *)
C5_OncePerProcessedPair ==
    [][(Ready /\ ret'.op = "distribute_variable") =>
          LET a == ret'.args
          IN  /\ \A gv \in Registered :
                    LET n == Writes(data, a, gv)
                        old == Stored(data, gv, a.to_iterate)
                        new == Stored(data', gv, a.to_iterate)
                    IN  IF n = 0 THEN new = old
                        ELSE IF a.additive
                             THEN new = Slot(ArrayAdd(old.v, Scale(n, Slice(a.values, gv))))
                             ELSE new = Slot(Slice(a.values, gv))
              /\ (ret'.err = "KeyError") <=> (Processed(data, a) < Len(ProductOf(a)))
              /\ ret'.err \in {"none", "KeyError"}]_vars

\* an additive call, the second call, lists a grid twice and adds to a stored block
C5_Witness ==
    /\ ret.op = "distribute_variable"
    /\ ncalls = 2
    /\ ret.args.additive
    /\ ret.err = "none"
    /\ ~ret.args.grids.none
    /\ Len(ret.args.grids.list) = 2
    /\ ret.args.grids.list[1] = ret.args.grids.list[2]
    /\ \E gv \in Registered :
          /\ Selected(gv, ret.args.grids, ret.args.variables)
          /\ DofSet(gv) # {}
          /\ Stored(data, gv, ret.args.to_iterate).has

PairOfBlock(k) == block_dof[CHOOSE i \in 1..Len(block_dof) : block_dof[i][2] = k][1]

(* C7: get_variable_values(from_iterate), when every registered block has a    *)
(* stored value in the addressed store, returns the stored values of all       *)
(* blocks concatenated in block-id order (the empty vector for an empty        *)
(* registry).                                                                  *)
C7_GetVariableValues ==
    (ret.op = "get_variable_values" /\ ret.args.variables_is_none) =>
        ((\A gv \in Registered : Stored(data, gv, ret.args.from_iterate).has) =>
            /\ ret.err = "none"
            /\ ret.val = concatenate([k \in 1..Len(block_dof) |->
                             Stored(data, PairOfBlock(k - 1), ret.args.from_iterate).v]))

(* C8: assemble_variable with a selected registered block without a stored     *)
(* value, and get_variable_values with any registered block without one,       *)
(* raise KeyError, naming the variable, and return no vector.                  *)
C8_MissingValueIsKeyError ==
    /\ ret.op = "assemble_variable" =>
          LET missing == {gv \in Registered :
                             /\ Selected(gv, ret.args.grids, ret.args.variables)
                             /\ ~Stored(data, gv, ret.args.from_iterate).has}
          IN  missing # {} =>
                  /\ ret.err = "KeyError"
                  /\ ret.key \in {<<gv[2]>> : gv \in missing}
                  /\ ret.val = <<>>
    /\ (ret.op = "get_variable_values" /\ ret.args.variables_is_none) =>
          ((\E gv \in Registered : ~Stored(data, gv, ret.args.from_iterate).has) =>
              (ret.err = "KeyError" /\ ret.val = <<>>))

(* C10: no call changes block_dof or full_dof, and neither does a variable     *)
(* declared on a grid after the DofManager was built.                          *)
C10_RegistryImmutable == [][block_dof' = block_dof /\ full_dof' = full_dof]_vars

\* a variable was declared after construction, and a vector was distributed since
C10_Witness ==
    /\ Declared(mdg) # Registered
    /\ ret.op = "distribute_variable"
    /\ ret.err = "none"
    /\ \E gv \in Registered : Stored(data, gv, ret.args.to_iterate).has

(***************************************************************************)
(* distribute_variable and assemble_variable once more, with the identity  *)
(* of every array: which array object the dictionaries hold after a call,  *)
(* and which object the caller is handed.                                  *)
(***************************************************************************)
\* values[dof_ind] with dof_ind an integer array: advanced indexing, a new array
FancyIndex(h, id, dof_ind) == NdArray(Take(Contents(h, id), dof_ind), h[id].dtype)

\* arr.copy(): a new array that owns its entries
np_copy(h, obj) == NdArray(ObjContents(h, obj), obj.dtype)

\* a + b of two arrays: a new array
np_add(h, x, y) == NdArray(ArrayAdd(ObjContents(h, x), ObjContents(h, y)), "float64")

\* arr[dof_ind] = src, in place
SetItems(h, id, dof_ind, src) ==
    [h EXCEPT ![Owner(h, id)].a =
        Put(@, [k \in 1..Len(dof_ind) |-> h[id].off + dof_ind[k]], src)]

\* the dictionary entry st[sl] is bound to the object obj, put on the heap
Bound(h, st, sl, obj) ==
    [h |-> Alloc(h, obj), store |-> [st EXCEPT ![sl] = Len(h) + 1], err |-> "none"]

\* a faulty variant: an overwriting call stores a slice of values, a view
store_distribute_body_View(h, st, values, g, var, additive, to_iterate) ==
    LET dof_ind == grid_and_variable_to_dofs(g, var).val
        vals == FancyIndex(h, values, dof_ind)
        sl == <<g, var, to_iterate>>
    IN  IF additive
        THEN IF st[sl] = 0 THEN [h |-> h, store |-> st, err |-> "KeyError"]
             ELSE Bound(h, st, sl, np_add(h, h[st[sl]], vals))
        ELSE Bound(h, st, sl,
                   View(h, values, _block_range_from_grid_and_var(g, var).val[1],
                        Len(dof_ind)))

\* one pass of the loop body (lines 503-531) for a registered (g, var)
store_distribute_body(h, st, values, g, var, additive, to_iterate) ==
    LET dof_ind == grid_and_variable_to_dofs(g, var).val
        \* vals = values[dof_ind]
        vals == FancyIndex(h, values, dof_ind)
        sl == <<g, var, to_iterate>>
    IN  IF additive
        THEN IF st[sl] = 0 THEN [h |-> h, store |-> st, err |-> "KeyError"]
             \* data[pp.STATE][var] = data[pp.STATE][var] + vals
             ELSE Bound(h, st, sl, np_add(h, h[st[sl]], vals))
        \* data[pp.STATE][var] = vals.copy()
        ELSE Bound(h, st, sl, np_copy(h, vals))

RECURSIVE store_distribute_loop(_, _, _, _, _, _)
store_distribute_loop(h, st, values, pairs, additive, to_iterate) ==
    IF pairs = <<>> THEN [h |-> h, store |-> st, err |-> "none"]
    ELSE LET g == Head(pairs)[1]
             var == Head(pairs)[2]
         IN  IF ~DictHas(block_dof, <<g, var>>)
             THEN store_distribute_loop(h, st, values, Tail(pairs), additive, to_iterate)
             ELSE LET r == store_distribute_body(h, st, values, g, var, additive, to_iterate)
                  IN  IF r.err # "none" THEN r
                      ELSE store_distribute_loop(r.h, r.store, values, Tail(pairs),
                                                 additive, to_iterate)

\* the loop of assemble_variable (lines 567-583) over the array values
RECURSIVE store_assemble_loop(_, _, _, _, _)
store_assemble_loop(h, st, values, pairs, from_iterate) ==
    IF pairs = <<>> THEN [h |-> h, err |-> "none"]
    ELSE LET g == Head(pairs)[1]
             var == Head(pairs)[2]
             sl == <<g, var, from_iterate>>
         IN  IF ~DictHas(block_dof, <<g, var>>)
             THEN store_assemble_loop(h, st, values, Tail(pairs), from_iterate)
             ELSE IF st[sl] = 0 THEN [h |-> h, err |-> "KeyError"]
             \* values[dof_ind] = data[pp.STATE][var].copy()
             ELSE store_assemble_loop(
                      SetItems(h, values, grid_and_variable_to_dofs(g, var).val,
                               np_copy(h, h[st[sl]]).a),
                      st, values, Tail(pairs), from_iterate)

\* The caller builds the vector v and passes it to distribute_variable.
StoreDistribute(v, grids, variables, additive, to_iterate) ==
    /\ nops < MaxOps
    /\ LET h1 == Alloc(heap, NdArray(v, "float64"))
           r == store_distribute_loop(h1, refs.store, Len(h1),
                                      product(grids.list, variables.list),
                                      additive, to_iterate)
       IN  /\ heap' = r.h
           /\ refs' = [refs EXCEPT !.store = r.store, !.values = Len(h1),
                                   !.last = "distribute_variable"]
    /\ nops' = nops + 1
    /\ UNCHANGED <<dofVars, pool, out>>

\* assemble_variable: values = np.zeros(self.num_dofs()), filled and returned
StoreAssemble(grids, variables, from_iterate) ==
    /\ nops < MaxOps
    /\ LET h1 == Alloc(heap, NdArray([i \in 1..num_dofs |-> 0], "float64"))
           r == store_assemble_loop(h1, refs.store, Len(h1),
                                    product(grids.list, variables.list), from_iterate)
       IN  /\ heap' = r.h
           /\ refs' = [refs EXCEPT !.result = IF r.err = "none" THEN Len(h1) ELSE 0,
                                   !.last = "assemble_variable"]
    /\ nops' = nops + 1
    /\ UNCHANGED <<dofVars, pool, out>>

\* The caller writes x to entry i of the vector it passed to distribute_variable.
MutateValues(i, x) ==
    /\ nops < MaxOps
    /\ refs.values # 0
    /\ i < heap[refs.values].len
    /\ heap' = SetItem(heap, refs.values, i, x)
    /\ refs' = [refs EXCEPT !.last = "mutate_values"]
    /\ nops' = nops + 1
    /\ UNCHANGED <<dofVars, pool, out>>

\* The caller writes x to entry i of the vector assemble_variable returned.
MutateResult(i, x) ==
    /\ nops < MaxOps
    /\ refs.result # 0
    /\ i < heap[refs.result].len
    /\ heap' = SetItem(heap, refs.result, i, x)
    /\ refs' = [refs EXCEPT !.last = "mutate_result"]
    /\ nops' = nops + 1
    /\ UNCHANGED <<dofVars, pool, out>>

NextAlias ==
    \/ /\ nops < MaxOps
       /\ \E v \in TestVectors, grids \in ShortGridArgs, variables \in ShortVariableArgs,
             additive \in BOOLEAN, to_iterate \in BOOLEAN :
             StoreDistribute(v, grids, variables, additive, to_iterate)
    \/ /\ nops < MaxOps
       /\ \E grids \in ShortGridArgs, variables \in ShortVariableArgs,
             from_iterate \in BOOLEAN :
             StoreAssemble(grids, variables, from_iterate)
    \/ nops < MaxOps /\ \E i \in 0..(MaxBlocks - 1) : MutateValues(i, -1)
    \/ nops < MaxOps /\ \E i \in 0..(MaxBlocks - 1) : MutateResult(i, -1)

InitAlias == InitWith({MdgTwoSubdomains, MdgWithInterface})

SpecAlias == InitAlias /\ [][NextAlias]_vars

\* the arrays the dictionaries hold
StoredArrays == {refs.store[sl] : sl \in {t \in Slots : refs.store[t] # 0}}

\* the arrays the caller holds: the vector it passed, the vector it was handed
CallerArrays == {refs.values, refs.result} \ {0}

\* no stored array has entries in common with an array of the caller or with
\* the array of another dictionary entry
NoSharedStorage ==
    /\ \A id \in StoredArrays, c \in CallerArrays : Owner(heap, id) # Owner(heap, c)
    /\ \A s1, s2 \in Slots :
          (s1 # s2 /\ refs.store[s1] # 0 /\ refs.store[s2] # 0) =>
              Owner(heap, refs.store[s1]) # Owner(heap, refs.store[s2])

(* C11: the arrays in the STATE and ITERATE dictionaries share no storage with *)
(* the vector passed to distribute_variable nor with the vector returned by    *)
(* assemble_variable, and a write by the caller to an entry of either vector   *)
(* leaves every stored array as it was.                                        *)
C11_NoAliasing ==
    /\ []NoSharedStorage
    /\ [][refs'.last \in {"mutate_values", "mutate_result"} =>
             /\ refs'.store = refs.store
             /\ \A id \in StoredArrays : Contents(heap', id) = Contents(heap, id)]_vars

\* the caller has overwritten an entry of a vector it distributed, or of a vector
\* assembled from stored arrays, while an array with that entry is stored
C11_Witness ==
    /\ refs.last \in {"mutate_values", "mutate_result"}
    /\ \E id \in StoredArrays : heap[id].len > 0
    /\ \E c \in CallerArrays : \E i \in 1..heap[c].len : Contents(heap, c)[i] = -1
    /\ refs.last = "mutate_result" =>
          \E i \in 1..heap[refs.result].len : Contents(heap, refs.result)[i] > 0

(***************************************************************************)
(* Forward-mode automatic differentiation (forward_mode.py).               *)
(*                                                                         *)
(* Numbers are integers: the sums, products and powers with non-negative   *)
(* exponents that the operations below compute are exact on them.  A value *)
(* is a Python or numpy scalar, a numpy array, a scipy sparse matrix, or   *)
(* the exception raised where it was to be computed; an operation with an  *)
(* exception among its operands raises that exception.                     *)
(***************************************************************************)
PyInt(n) == [kind |-> "int", s |-> n]
PyFloat(n) == [kind |-> "float", s |-> n]
NpInteger(n) == [kind |-> "np.integer", s |-> n]
\* the object with identity id
Ref(id) == [kind |-> "ref", s |-> id]
\* the exception e, raised
Exc(e) == [kind |-> "exception", err |-> e]
\* scipy.sparse matrix with rows e[1], ..., each a sequence of cols entries
SpMatrix(rows, cols, e) == [kind |-> "spmatrix", rows |-> rows, cols |-> cols, e |-> e]

IsScalar(x) == x.kind \in {"int", "float", "np.integer"}
IsInteger(x) == x.kind \in {"int", "np.integer"}
IsNdArray(x) == x.kind = "ndarray"
IsSpMatrix(x) == x.kind = "spmatrix"
IsExc(x) == x.kind = "exception"

\* what a name bound to v denotes: the object, with the entries of a view read
Load(h, v) ==
    IF v.kind # "ref" THEN v
    ELSE IF h[v.s].kind = "ndarray" /\ h[v.s].dtype # "object"
         THEN NdArray(Contents(h, v.s), h[v.s].dtype)
         ELSE h[v.s]

\* x.size of an array, and the shape of a matrix
size(x) == Len(x.a)
shape(J) == <<J.rows, J.cols>>

\* the type of the result of arithmetic on two scalars, two arrays
ScalarKind(x, y) == IF IsInteger(x) /\ IsInteger(y) THEN "int" ELSE "float"
ArrayDtype(x, y) ==
    IF (IsInteger(x) \/ (IsNdArray(x) /\ x.dtype = "int64"))
       /\ (IsInteger(y) \/ (IsNdArray(y) /\ y.dtype = "int64"))
    THEN "int64" ELSE "float64"

RECURSIVE Power(_, _)
Power(a, b) == IF b = 0 THEN 1 ELSE a * Power(a, b - 1)
\* a op b on numbers, op one of "+", "*", "**"
Arith(op, a, b) ==
    CASE op = "+" -> a + b
      [] op = "*" -> a * b
      [] op = "**" -> Power(a, b)

\* entry i of x broadcast to n entries
At(x, i) == IF IsScalar(x) THEN x.s ELSE IF size(x) = 1 THEN x.a[1] ELSE x.a[i]

\* x op y of numpy on scalars and one-dimensional arrays, with broadcasting
elementwise(op, x, y) ==
    IF IsExc(x) THEN x
    ELSE IF IsExc(y) THEN y
    ELSE IF IsScalar(x) /\ IsScalar(y)
    THEN [kind |-> ScalarKind(x, y), s |-> Arith(op, x.s, y.s)]
    ELSE IF IsNdArray(x) /\ IsNdArray(y) /\ size(x) # size(y)
            /\ size(x) # 1 /\ size(y) # 1
    THEN Exc("ValueError")
    ELSE LET n == IF IsScalar(x) THEN size(y)
                  ELSE IF IsScalar(y) THEN size(x)
                  ELSE IF size(x) = 1 THEN size(y) ELSE size(x)
         IN  NdArray([i \in 1..n |-> Arith(op, At(x, i), At(y, i))], ArrayDtype(x, y))

\* float(x), x.astype(float)
float(x) ==
    IF IsExc(x) THEN x
    ELSE IF IsScalar(x) THEN PyFloat(x.s)
    ELSE NdArray(x.a, "float64")

MatScale(c, J) ==
    SpMatrix(J.rows, J.cols, [i \in 1..J.rows |-> [j \in 1..J.cols |-> c * J.e[i][j]]])
MatAdd(J, K) ==
    SpMatrix(J.rows, J.cols,
             [i \in 1..J.rows |-> [j \in 1..J.cols |-> J.e[i][j] + K.e[i][j]]])
MatMul(A, J) ==
    SpMatrix(A.rows, J.cols,
             [i \in 1..A.rows |-> [j \in 1..J.cols |->
                 SeqSum([k \in 1..A.cols |-> A.e[i][k] * J.e[k][j]])]])

\* -x
negative(x) ==
    IF IsExc(x) THEN x
    ELSE IF IsScalar(x) THEN [kind |-> x.kind, s |-> -x.s]
    ELSE IF IsNdArray(x) THEN NdArray([i \in 1..size(x) |-> -x.a[i]], x.dtype)
    ELSE MatScale(-1, x)

\* X + Y where one of the two is a sparse matrix or both are scalars: the sum
\* of two matrices of one shape; a matrix plus the scalar 0 is a copy of it,
\* plus another scalar NotImplementedError
sp_add(X, Y) ==
    IF IsExc(X) THEN X
    ELSE IF IsExc(Y) THEN Y
    ELSE IF IsSpMatrix(X) /\ IsSpMatrix(Y)
    THEN IF shape(X) # shape(Y) THEN Exc("ValueError") ELSE MatAdd(X, Y)
    ELSE IF IsSpMatrix(X) /\ IsScalar(Y)
    THEN IF Y.s # 0 THEN Exc("NotImplementedError") ELSE X
    ELSE IF IsScalar(X) /\ IsSpMatrix(Y)
    THEN IF X.s # 0 THEN Exc("NotImplementedError") ELSE Y
    ELSE elementwise("+", X, Y)

\* X * Y where one of the two is a sparse matrix or both are not: the matrix
\* product of two matrices, a matrix scaled by a scalar, the product of a
\* matrix with a one-dimensional array taken as a vector (array * matrix is
\* the array of the sums over the rows, matrix * array over the columns)
sp_mul(X, Y) ==
    IF IsExc(X) THEN X
    ELSE IF IsExc(Y) THEN Y
    ELSE IF IsSpMatrix(X) /\ IsSpMatrix(Y)
    THEN IF X.cols # Y.rows THEN Exc("ValueError") ELSE MatMul(X, Y)
    ELSE IF IsSpMatrix(X) /\ IsScalar(Y) THEN MatScale(Y.s, X)
    ELSE IF IsScalar(X) /\ IsSpMatrix(Y) THEN MatScale(X.s, Y)
    ELSE IF IsNdArray(X) /\ IsSpMatrix(Y)
    THEN IF size(X) # Y.rows THEN Exc("ValueError")
         ELSE NdArray([j \in 1..Y.cols |->
                          SeqSum([k \in 1..Y.rows |-> X.a[k] * Y.e[k][j]])], "float64")
    ELSE IF IsSpMatrix(X) /\ IsNdArray(Y)
    THEN IF X.cols # size(Y) THEN Exc("ValueError")
         ELSE NdArray([i \in 1..X.rows |->
                          SeqSum([k \in 1..X.cols |-> X.e[i][k] * Y.a[k]])], "float64")
    ELSE elementwise("*", X, Y)

\* sps.diags(a): the diagonal matrix of a one-dimensional array; TypeError for
\* a scalar, which has no len()
sps_diags(a) ==
    IF IsExc(a) THEN a
    ELSE IF IsNdArray(a)
    THEN SpMatrix(size(a), size(a),
                  [i \in 1..size(a) |-> [j \in 1..size(a) |-> IF i = j THEN a.a[i] ELSE 0]])
    ELSE Exc("TypeError")

\* sps.csc_matrix((n, m)): zeros
sps_zeros(n, m) == SpMatrix(n, m, [i \in 1..n |-> [j \in 1..m |-> 0]])

\* sps.bmat([blocks]): the blocks side by side
RECURSIVE sps_bmat(_)
sps_bmat(blocks) ==
    IF Len(blocks) = 1 THEN blocks[1]
    ELSE LET A == blocks[1]
             B == sps_bmat(Tail(blocks))
         IN  SpMatrix(A.rows, A.cols + B.cols, [i \in 1..A.rows |-> A.e[i] \o B.e[i]])

\* np.log on the bases of the model, in thousandths
np_log(x) ==
    IF IsExc(x) THEN x
    ELSE PyFloat(CASE x.s = 1 -> 0 [] x.s = 2 -> 693 [] x.s = 3 -> 1099)

(***************************************************************************)
(* class Ad_array.  An Ad_array is an object with the attributes val and   *)
(* jac; an attribute holds a scalar, the identity of an object on the heap *)
(* (Ref), or an object that was just computed and that no other name       *)
(* holds.                                                                  *)
(***************************************************************************)
\* Ad_array(val, jac); the expressions for val and jac are evaluated in order
Ad_array(val, jac) ==
    IF IsExc(val) THEN val
    ELSE IF IsExc(jac) THEN jac
    ELSE [kind |-> "Ad_array", val |-> val, jac |-> jac]

IsAd(x) == x.kind = "Ad_array"

\* _cast(variables) for an argument that is not a list
_cast(variables) ==
    IF IsAd(variables) THEN variables ELSE Ad_array(variables, PyFloat(0))

\* a faulty variant: the array a is not made a diagonal matrix
diagvec_mul_jac_NoDiag(h, self, a) == sp_mul(a, Load(h, self.jac))

diagvec_mul_jac(h, self, a) ==
    LET d == sps_diags(a)
        \* except TypeError: A = a
        A == IF IsExc(d) /\ d.err = "TypeError" THEN a ELSE d
        J == Load(h, self.jac)
    IN  IF IsExc(A) THEN A
        ELSE IF IsNdArray(J)
        \* np.array([A * J for J in self.jac])
        THEN LET prods == [k \in 1..size(J) |-> sp_mul(A, Load(h, J.a[k]))]
             IN  IF \E k \in 1..size(J) : IsExc(prods[k])
                 THEN prods[CHOOSE k \in 1..size(J) :
                               IsExc(prods[k]) /\ \A j \in 1..(k - 1) : ~IsExc(prods[j])]
                 ELSE [kind |-> "ndarray", dtype |-> "object", a |-> prods,
                       base |-> 0, off |-> 0, len |-> size(J)]
        ELSE sp_mul(A, J)

_other_mul_jac(h, self, other) == sp_mul(other, Load(h, self.jac))

_jac_mul_other(h, self, other) == sp_mul(Load(h, self.jac), other)

\* a faulty variant: the Jacobian of the other operand is left out
__add___SelfJac(h, self, other) ==
    Ad_array(elementwise("+", Load(h, self.val), Load(h, _cast(other).val)),
             Load(h, self.jac))

__add__(h, self, other) ==
    LET b == _cast(other)
    IN  Ad_array(elementwise("+", Load(h, self.val), Load(h, b.val)),
                 sp_add(Load(h, self.jac), Load(h, b.jac)))

__radd__(h, self, other) == __add__(h, self, other)

\* a faulty variant: the arrays of matrices are copied matrix by matrix
copy_Deep(h, self) ==
    LET v == Load(h, self.val)
        J == Load(h, self.jac)
    IN  Ad_array(IF v.kind \in {"int", "float"} THEN self.val ELSE v,
                 IF IsScalar(J) THEN self.jac
                 ELSE IF IsNdArray(J) /\ J.dtype = "object"
                 THEN [J EXCEPT !.a = [k \in 1..size(J) |-> Load(h, J.a[k])]]
                 ELSE J)

\* copy(): val.copy() and jac.copy() are new objects; a Python number has no
\* copy() and is kept; the copy of an array of matrices holds the same matrices
copy(h, self) ==
    LET v == Load(h, self.val)
        J == Load(h, self.jac)
    IN  Ad_array(IF v.kind \in {"int", "float"} THEN self.val ELSE v,
                 IF IsScalar(J) THEN self.jac ELSE J)

__neg__(h, self) ==
    LET b == copy(h, self)
    IN  Ad_array(negative(Load(h, b.val)), negative(Load(h, b.jac)))

__sub__(h, self, other) ==
    LET b == copy(h, _cast(other))
        nb == Ad_array(negative(Load(h, b.val)), negative(Load(h, b.jac)))
    IN  __add__(h, self, nb)

__rsub__(h, self, other) ==
    LET d == __sub__(h, self, other)
    IN  IF IsExc(d) THEN d ELSE __neg__(h, d)

\* a faulty variant: the product keeps the Jacobian of self, scaled
__mul___OneTerm(h, self, other) ==
    IF ~IsAd(other)
    THEN Ad_array(elementwise("*", Load(h, self.val), other),
                  IF IsNdArray(other) THEN diagvec_mul_jac(h, self, other)
                  ELSE _jac_mul_other(h, self, other))
    ELSE Ad_array(elementwise("*", Load(h, self.val), Load(h, other.val)),
                  diagvec_mul_jac(h, self, Load(h, other.val)))

__mul__(h, self, other) ==
    IF ~IsAd(other)
    THEN Ad_array(elementwise("*", Load(h, self.val), other),
                  IF IsNdArray(other) THEN diagvec_mul_jac(h, self, other)
                  ELSE _jac_mul_other(h, self, other))
    ELSE Ad_array(elementwise("*", Load(h, self.val), Load(h, other.val)),
                  sp_add(diagvec_mul_jac(h, self, Load(h, other.val)),
                         diagvec_mul_jac(h, other, Load(h, self.val))))

__rmul__(h, self, other) ==
    IF IsAd(other) THEN Exc("RuntimeError")
    ELSE Ad_array(elementwise("*", other, Load(h, self.val)),
                  _other_mul_jac(h, self, other))

\* a faulty variant: the derivative keeps the exponent of the value
__pow___SameExponent(h, self, other) ==
    Ad_array(elementwise("**", Load(h, self.val), float(other)),
             diagvec_mul_jac(h, self,
                 elementwise("*", other,
                     elementwise("**", Load(h, self.val), float(other)))))

\* __pow__ with an exponent that is not an Ad_array (lines 93-112); the branch
\* for an Ad_array exponent takes np.log of the values and is left out
__pow__(h, self, other) ==
    LET v == Load(h, self.val)
        minus1 == PyInt(-1)
    IN  IF IsInteger(other)
        THEN Ad_array(elementwise("**", v, float(other)),
                      diagvec_mul_jac(h, self,
                          elementwise("*", other,
                              elementwise("**", v, float(elementwise("+", other, minus1))))))
        ELSE IF IsNdArray(other) /\ other.dtype = "int64"
        THEN Ad_array(elementwise("**", v, float(other)),
                      diagvec_mul_jac(h, self,
                          elementwise("*", other,
                              elementwise("**", v, elementwise("+", float(other), minus1)))))
        ELSE Ad_array(elementwise("**", v, other),
                      diagvec_mul_jac(h, self,
                          elementwise("*", other,
                              elementwise("**", v, elementwise("+", other, minus1)))))

\* a faulty variant: the derivative lacks the factor np.log(other)
__rpow___NoLog(h, self, other, depth) ==
    Ad_array(elementwise("**", other, float(Load(h, self.val))),
             diagvec_mul_jac(h, self, elementwise("**", other, float(Load(h, self.val)))))

\* __rpow__, entered with depth frames on the call stack.  In the last branch
\* other ** self is evaluated: other, a Python number, does not know Ad_array,
\* so Python calls self.__rpow__(other) for it.
RECURSIVE __rpow__(_, _, _, _)
__rpow__(h, self, other, depth) ==
    LET v == Load(h, self.val)
    IN  IF depth > RecursionLimit THEN Exc("RecursionError")
        ELSE IF IsAd(other) THEN Exc("ValueError")
        ELSE IF IsNdArray(v)
        THEN Ad_array(elementwise("**", other, float(v)),
                      diagvec_mul_jac(h, self,
                          elementwise("*", elementwise("**", other, float(v)),
                                      np_log(other))))
        ELSE IF v.kind = "int"
        THEN Ad_array(elementwise("**", other, float(v)),
                      diagvec_mul_jac(h, self,
                          elementwise("*", elementwise("**", other, float(v)),
                                      np_log(other))))
        ELSE Ad_array(__rpow__(h, self, other, depth + 1),
                      diagvec_mul_jac(h, self,
                          elementwise("*", elementwise("**", other, v), np_log(other))))

\* sps.diags(np.ones(n)).tocsc()
Identity(n) == sps_diags(NdArray([i \in 1..n |-> 1], "float64"))

\* v.size; a Python number has no attribute size
SizeOf(v) == IF IsNdArray(v) THEN size(v) ELSE IF v.kind = "np.integer" THEN 1 ELSE 0

\* a faulty variant: the Jacobian has only the columns of the variable's block
SeedJacobian_OwnBlock(i, num_val) == Identity(num_val[i])

\* the Jacobian of variable i of a list (lines 18-23)
SeedJacobian(i, num_val) ==
    sps_bmat([m \in 1..Len(num_val) |->
                 IF m = i THEN Identity(num_val[i]) ELSE sps_zeros(num_val[i], num_val[m])])

\* initAdArrays(variables): variables is [list |-> FALSE, v |-> one value] or
\* [list |-> TRUE, items |-> values].  The result is one Ad_array, or the
\* sequence of the Ad_arrays of a list; val is the object that was passed.
initAdArrays(h, variables) ==
    IF ~variables.list
    THEN LET v == Load(h, variables.v)
             num_val == IF IsNdArray(v) \/ v.kind = "np.integer" THEN SizeOf(v) ELSE 1
         IN  <<Ad_array(variables.v, Identity(num_val))>>
    ELSE IF \E i \in 1..Len(variables.items) : IsScalar(Load(h, variables.items[i]))
                 /\ Load(h, variables.items[i]).kind # "np.integer"
    THEN <<Exc("AttributeError")>>
    ELSE LET num_val == [i \in 1..Len(variables.items) |->
                            SizeOf(Load(h, variables.items[i]))]
         IN  [i \in 1..Len(variables.items) |->
                 Ad_array(variables.items[i], SeedJacobian(i, num_val))]

(***************************************************************************)
(* Objects of the AD layer on the heap.  heap holds, besides arrays, the   *)
(* sparse matrices and the Ad_arrays; pool is the sequence of the          *)
(* Ad_arrays the caller holds; out is the record of the last call.         *)
(***************************************************************************)
\* v bound to an attribute or an item: a computed object gets an identity
Bind(h, v) ==
    IF v.kind = "ref" \/ IsScalar(v) THEN [h |-> h, v |-> v]
    ELSE [h |-> Append(h, v), v |-> Ref(Len(h) + 1)]

RECURSIVE BindAll(_, _)
BindAll(h, items) ==
    IF items = <<>> THEN [h |-> h, v |-> <<>>]
    ELSE LET r == Bind(h, Head(items))
             rest == BindAll(r.h, Tail(items))
         IN  [h |-> rest.h, v |-> <<r.v>> \o rest.v]

\* the Ad_array ad becomes an object: its val and jac first (the matrices of
\* an array of matrices before the array), then the Ad_array
NewAd(h, ad) ==
    LET r1 == Bind(h, ad.val)
        r2 == IF IsNdArray(ad.jac) /\ ad.jac.dtype = "object"
              THEN LET items == BindAll(r1.h, ad.jac.a)
                   IN  Bind(items.h, [ad.jac EXCEPT !.a = items.v])
              ELSE Bind(r1.h, ad.jac)
    IN  [h |-> Append(r2.h, [kind |-> "Ad_array", val |-> r1.v, jac |-> r2.v]),
         id |-> Len(r2.h) + 1]

RECURSIVE NewAds(_, _)
NewAds(h, ads) ==
    IF ads = <<>> THEN [h |-> h, ids |-> <<>>]
    ELSE LET r == NewAd(h, Head(ads))
             rest == NewAds(r.h, Tail(ads))
         IN  [h |-> rest.h, ids |-> <<r.id>> \o rest.ids]

\* the value and the Jacobian of the Ad_array with identity id, as the caller
\* reads them: the entries of val; the matrix, or the matrices of the array
AdVal(h, id) == Load(h, h[id].val)
AdJac(h, id) ==
    LET J == Load(h, h[id].jac)
    IN  IF IsNdArray(J) /\ J.dtype = "object"
        THEN [kind |-> "matrices", a |-> [k \in 1..size(J) |-> Load(h, J.a[k])]]
        ELSE J

\* the entries of a value, a scalar being one entry
Entries(v) == IF IsScalar(v) THEN <<v.s>> ELSE v.a
InRange(v, lo, hi) == \A i \in 1..Len(Entries(v)) : Entries(v)[i] \in lo..hi

\* an Ad_array of the pool that the operations below take as an operand: its
\* Jacobian is one sparse matrix and its values are within the bound
Usable(id) ==
    /\ IsSpMatrix(AdJac(heap, id))
    /\ InRange(AdVal(heap, id), -MaxValue, MaxValue)
Operands == {pool[i] : i \in {j \in 1..Len(pool) : Usable(pool[j])}}

\* the argument other of a call: an Ad_array of the pool or a plain value
Arg(other) == IF other.kind = "ref" THEN heap[other.s] ELSE other
IsOperand(other) == other.kind = "ref" => other.s \in Operands

\* what out records of a call, for the record of the call after it
Call(o) == [op |-> o.op, self |-> o.self, other |-> o.other, err |-> o.err, res |-> o.res]

\* a call of the method name on self with the argument other, r its result;
\* out keeps the call before it as prev
Operation(name, self, other, r) ==
    /\ nops < MaxAdOps
    /\ LET new == IF IsExc(r) THEN [h |-> heap, id |-> 0] ELSE NewAd(heap, r)
       IN  /\ heap' = new.h
           /\ pool' = IF IsExc(r) THEN pool ELSE Append(pool, new.id)
           /\ out' = [op |-> name, self |-> self, other |-> other,
                      err |-> IF IsExc(r) THEN r.err ELSE "", res |-> new.id,
                      prev |-> Call(out)]
    /\ nops' = nops + 1
    /\ UNCHANGED <<dofVars, refs>>

\* the vectors and numbers that are seeded
SeedVectors ==
    {NdArray(<<3>>, "float64"), NdArray(<<1, 2>>, "float64"), PyInt(3), PyFloat(2)}
SeedArgs ==
    {[list |-> FALSE, v |-> v] : v \in SeedVectors}
    \cup {[list |-> TRUE, items |-> <<NdArray(<<1, 2>>, "float64"), NdArray(<<3>>, "float64")>>],
          [list |-> TRUE, items |-> <<NdArray(<<3>>, "float64"), NdArray(<<1, 2>>, "float64"),
                                       NdArray(<<2>>, "float64")>>],
          [list |-> TRUE, items |-> <<NdArray(<<1, 2>>, "float64"), PyFloat(2)>>]}

\* plain co-operands
PlainScalars == {PyInt(2), PyFloat(2), NpInteger(3)}
PlainArrays ==
    {NdArray(<<2>>, "float64"), NdArray(<<2, 3>>, "float64"),
     NdArray(<<1, 2, 3>>, "float64")}
IntegerExponents ==
    {PyInt(2), PyInt(3), NpInteger(2), NdArray(<<2>>, "int64"), NdArray(<<2, 3>>, "int64")}
Bases == {PyInt(2), PyFloat(2), PyFloat(3)}

\* initAdArrays(variables), the caller's vectors being objects of the heap
InitAdArrays(variables) ==
    /\ pool = <<>>
    /\ nops = 0
    /\ out = NoOut
    /\ LET args == BindAll(heap, IF variables.list THEN variables.items ELSE <<variables.v>>)
           bound == IF variables.list THEN [variables EXCEPT !.items = args.v]
                    ELSE [variables EXCEPT !.v = args.v[1]]
           r == initAdArrays(args.h, bound)
           failed == IsExc(r[1])
           new == IF failed THEN [h |-> args.h, ids |-> <<>>] ELSE NewAds(args.h, r)
       IN  /\ heap' = new.h
           /\ pool' = new.ids
           /\ out' = [op |-> "initAdArrays", self |-> 0, other |-> bound,
                      err |-> IF failed THEN r[1].err ELSE "", res |-> new.ids]
    /\ UNCHANGED <<dofVars, refs, nops>>

Add(self, other) ==
    /\ self \in Operands /\ IsOperand(other)
    /\ Operation("__add__", self, other, __add__(heap, heap[self], Arg(other)))

Radd(self, other) ==
    /\ self \in Operands /\ other.kind # "ref"
    /\ Operation("__radd__", self, other, __radd__(heap, heap[self], other))

Sub(self, other) ==
    /\ self \in Operands /\ IsOperand(other)
    /\ Operation("__sub__", self, other, __sub__(heap, heap[self], Arg(other)))

Rsub(self, other) ==
    /\ self \in Operands /\ other.kind # "ref"
    /\ Operation("__rsub__", self, other, __rsub__(heap, heap[self], other))

Mul(self, other) ==
    /\ self \in Operands /\ IsOperand(other)
    /\ Operation("__mul__", self, other, __mul__(heap, heap[self], Arg(other)))

Rmul(self, other) ==
    /\ self \in Operands /\ other.kind # "ref"
    /\ Operation("__rmul__", self, other, __rmul__(heap, heap[self], other))

Pow(self, other) ==
    /\ self \in Operands /\ other.kind # "ref"
    /\ Operation("__pow__", self, other, __pow__(heap, heap[self], other))

Rpow(self, other) ==
    /\ self \in Operands /\ other.kind # "ref"
    /\ InRange(AdVal(heap, self), 0, MaxExponent)
    /\ Operation("__rpow__", self, other, __rpow__(heap, heap[self], other, 1))

Neg(self) ==
    /\ self \in Operands
    /\ Operation("__neg__", self, PyInt(0), __neg__(heap, heap[self]))

\* Ad_array(val, jac) with the Jacobian given as an array of the matrices of
\* the components
ComponentJacobians ==
    [kind |-> "ndarray", dtype |-> "object",
     a |-> <<SpMatrix(2, 2, <<<<1, 0>>, <<0, 0>>>>), SpMatrix(2, 2, <<<<0, 0>>, <<0, 1>>>>)>>,
     base |-> 0, off |-> 0, len |-> 2]
Construct(val, jac) ==
    /\ pool = <<>>
    /\ nops = 0
    /\ out = NoOut
    /\ LET new == NewAd(heap, Ad_array(val, jac))
       IN  /\ heap' = new.h
           /\ pool' = <<new.id>>
           /\ out' = [op |-> "__init__", self |-> 0, other |-> PyInt(0), err |-> "",
                      res |-> new.id]
    /\ UNCHANGED <<dofVars, refs, nops>>

Copy(self) ==
    /\ \E i \in 1..Len(pool) : pool[i] = self
    /\ Operation("copy", self, PyInt(0), copy(heap, heap[self]))

\* ad.val[i] = x by the holder of the Ad_array ad, after a copy
SetValItem(ad, i, x) ==
    /\ nops < MaxAdOps
    /\ out.op = "copy" /\ out.err = ""
    /\ ad \in {out.self, out.res}
    /\ heap[ad].val.kind = "ref"
    /\ i < heap[heap[ad].val.s].len
    /\ heap' = SetItem(heap, heap[ad].val.s, i, x)
    /\ out' = [op |-> "setitem", self |-> ad, other |-> PyInt(0), err |-> "",
               res |-> 0, x |-> out.self, c |-> out.res]
    /\ nops' = nops + 1
    /\ UNCHANGED <<dofVars, refs, pool>>

\* ad.jac[r, c] = x, or ad.jac[k][r, c] = x when the Jacobian is an array of
\* matrices (k = 0 for one matrix)
SetJacItem(ad, k, r, c, x) ==
    /\ nops < MaxAdOps
    /\ out.op = "copy" /\ out.err = ""
    /\ ad \in {out.self, out.res}
    /\ LET J == heap[heap[ad].jac.s]
           m == IF IsSpMatrix(J) THEN heap[ad].jac.s ELSE J.a[k].s
       IN  /\ IF IsSpMatrix(J) THEN k = 0 ELSE k \in 1..J.len
           /\ r \in 1..heap[m].rows /\ c \in 1..heap[m].cols
           /\ heap' = [heap EXCEPT ![m].e[r][c] = x]
    /\ out' = [op |-> "setitem", self |-> ad, other |-> PyInt(0), err |-> "",
               res |-> 0, x |-> out.self, c |-> out.res]
    /\ nops' = nops + 1
    /\ UNCHANGED <<dofVars, refs, pool>>

\* some Ad_array can be an operand of a further operation
CanOperate ==
    /\ nops < MaxAdOps
    /\ Operands # {}
AdOperands == {Ref(id) : id \in Operands}

NextAd ==
    \/ \E variables \in SeedArgs : InitAdArrays(variables)
    \/ Construct(NdArray(<<1, 2>>, "float64"), ComponentJacobians)
    \/ CanOperate /\ \E self \in Operands, other \in AdOperands \cup PlainScalars \cup PlainArrays :
                   Add(self, other)
    \/ CanOperate /\ \E self \in Operands, other \in AdOperands \cup PlainScalars \cup PlainArrays :
                   Sub(self, other)
    \/ CanOperate /\ \E self \in Operands, other \in AdOperands \cup PlainScalars \cup PlainArrays :
                   Mul(self, other)
    \/ CanOperate /\ \E self \in Operands, other \in PlainScalars \cup PlainArrays :
                   Radd(self, other)
    \/ CanOperate /\ \E self \in Operands, other \in PlainScalars \cup PlainArrays :
                   Rsub(self, other)
    \/ CanOperate /\ \E self \in Operands, other \in PlainScalars \cup PlainArrays :
                   Rmul(self, other)
    \/ CanOperate /\ \E self \in Operands, other \in IntegerExponents \cup {PyFloat(2)} :
                   Pow(self, other)
    \/ CanOperate /\ \E self \in Operands, other \in Bases : Rpow(self, other)
    \/ CanOperate /\ \E self \in Operands : Neg(self)
    \/ nops < MaxAdOps /\ \E i \in 1..Len(pool) : Copy(pool[i])
    \/ out.op = "copy" /\ \E ad \in {out.self, out.res}, i \in 0..1 : SetValItem(ad, i, -1)
    \/ out.op = "copy" /\ \E ad \in {out.self, out.res}, k \in 0..2, r \in 1..2, c \in 1..2 :
                             SetJacItem(ad, k, r, c, -1)

InitAd == InitWith({MdgEmpty})

SpecAd == InitAd /\ [][NextAd]_vars

(***************************************************************************)
(* Claims on the AD layer.  They are read off out, the record of the last  *)
(* call, and the objects it names.                                         *)
(***************************************************************************)
\* the sizes of the vectors of a list that was seeded
SeededSizes(h, items) == [i \in 1..Len(items) |-> size(Load(h, items[i]))]
\* the n x total matrix that is the identity on the columns from+1 .. from+n
\* and zero in every other column
IdentityBlock(n, from, total) ==
    SpMatrix(n, total, [r \in 1..n |-> [c \in 1..total |-> IF c = from + r THEN 1 ELSE 0]])
SeededList == out.op = "initAdArrays" /\ out.err = "" /\ out.other.list
SeededSingle == out.op = "initAdArrays" /\ out.err = "" /\ ~out.other.list

(* C12: initAdArrays on a list of vectors of sizes n_1..n_k returns k      *)
(* Ad_arrays in the order of the list; the i-th has the i-th vector as its *)
(* value and a Jacobian with n_i rows and n_1+...+n_k columns that is the  *)
(* identity on the columns of block i and zero elsewhere.  On one vector   *)
(* of size n (a number has size 1) it returns one Ad_array with that value *)
(* and the n x n identity as its Jacobian.                                 *)
C12_Seeding ==
    /\ SeededList =>
          LET items == out.other.items
              num == SeededSizes(heap, items)
          IN  /\ Len(out.res) = Len(items)
              /\ pool = out.res
              /\ \A i \in 1..Len(items) :
                    /\ AdVal(heap, out.res[i]) = Load(heap, items[i])
                    /\ AdJac(heap, out.res[i])
                          = IdentityBlock(num[i], SeqSum(SubSeq(num, 1, i - 1)), SeqSum(num))
    /\ SeededSingle =>
          LET v == Load(heap, out.other.v)
              n == IF IsNdArray(v) THEN size(v) ELSE 1
          IN  /\ Len(out.res) = 1
              /\ AdVal(heap, out.res[1]) = v
              /\ AdJac(heap, out.res[1]) = IdentityBlock(n, 0, n)

\* a list of three vectors of sizes 1, 2, 1 was seeded: the middle Ad_array has
\* its identity in the columns 2 and 3 of 4
C12_Witness ==
    /\ SeededList
    /\ Len(out.res) = 3
    /\ AdVal(heap, out.res[2]).a = <<1, 2>>
    /\ AdJac(heap, out.res[2]).e = <<<<0, 1, 0, 0>>, <<0, 0, 1, 0>>>>

\* the Ad_arrays of the pool derive from the seeds of one initAdArrays call,
\* whose Jacobians have SeedColumns columns
FromSeeds == pool # <<>> /\ IsSpMatrix(AdJac(heap, pool[1]))
SeedColumns == AdJac(heap, pool[1]).cols
\* value.size
ValueSize(h, id) == Len(Entries(AdVal(h, id)))

(* C13: every Ad_array derived from the seeds of one initAdArrays call by  *)
(* operations that completed without error has a Jacobian with as many     *)
(* rows as its value has entries and with the column count of the seeds.   *)
C13_JacobianShape ==
    FromSeeds =>
        \A i \in 1..Len(pool) :
            /\ IsSpMatrix(AdJac(heap, pool[i]))
            /\ AdJac(heap, pool[i]).rows = ValueSize(heap, pool[i])
            /\ AdJac(heap, pool[i]).cols = SeedColumns

\* the last call was the method op on an Ad_array whose value is an array,
\* with an Ad_array or a plain array of another length
LengthOf(other) ==
    IF other.kind = "ref" THEN ValueSize(heap, other.s) ELSE Len(Entries(other))
IsArrayLike(other) ==
    IF other.kind = "ref" THEN IsNdArray(AdVal(heap, other.s)) ELSE IsNdArray(other)
MismatchedCall ==
    /\ out.op \in {"__add__", "__radd__", "__sub__", "__rsub__", "__mul__", "__rmul__"}
    /\ IsNdArray(AdVal(heap, out.self))
    /\ IsArrayLike(out.other)
    /\ LengthOf(out.other) # ValueSize(heap, out.self)

(* C15: adding, subtracting or multiplying an Ad_array of length n with an *)
(* Ad_array or a plain array of another length m, one-element arrays       *)
(* included, fails with a shape error and returns no Ad_array.             *)
C15_ShapeMismatchFails ==
    MismatchedCall => out.err = "ValueError" /\ out.res = 0

\* the last call was the method op and returned an Ad_array
Returned(op) == out.op = op /\ out.err = ""
\* the entries of the value and the Jacobian of self, other and the result of
\* the last call
SelfVal == Entries(AdVal(heap, out.self))
SelfJac == AdJac(heap, out.self)
OtherVal == IF out.other.kind = "ref" THEN Entries(AdVal(heap, out.other.s))
            ELSE Entries(out.other)
OtherJac == AdJac(heap, out.other.s)
ResVal == Entries(AdVal(heap, out.res))
ResJac == AdJac(heap, out.res)
OtherIsAd == out.other.kind = "ref"
SameShape(J, K) == IsSpMatrix(J) /\ IsSpMatrix(K) /\ J.rows = K.rows /\ J.cols = K.cols
\* entry i of a plain operand as numpy broadcasts it
Broadcast(v, i) == IF Len(v) = 1 THEN v[1] ELSE v[i]
\* J = s * K
Scaled(J, s, K) ==
    /\ SameShape(J, K)
    /\ \A r \in 1..J.rows, c \in 1..J.cols : J.e[r][c] = s * K.e[r][c]
\* J = s * K + t * L
Combined(J, s, K, t, L) ==
    /\ SameShape(J, K) /\ SameShape(J, L)
    /\ \A r \in 1..J.rows, c \in 1..J.cols : J.e[r][c] = s * K.e[r][c] + t * L.e[r][c]

(* C14: for Ad_arrays a and b of equal length from the same seeds, a + b   *)
(* and a - b have the value a.val +/- b.val and the Jacobian a.jac +/-     *)
(* b.jac; for a plain scalar s, (s*a + b).jac = s*a.jac + b.jac; adding or *)
(* subtracting a plain scalar or a plain array changes the value only and  *)
(* leaves the Jacobian a.jac, negated for the reflected subtraction c - a. *)
C14_Linearity ==
    /\ (Returned("__add__") \/ Returned("__sub__")) /\ OtherIsAd
          /\ Len(SelfVal) = Len(OtherVal) =>
          LET sign == IF out.op = "__add__" THEN 1 ELSE -1
          IN  /\ Len(ResVal) = Len(SelfVal)
              /\ \A i \in 1..Len(ResVal) :
                    ResVal[i] = SelfVal[i] + sign * OtherVal[i]
              /\ Combined(ResJac, 1, SelfJac, sign, OtherJac)
    /\ Returned("__add__") /\ OtherIsAd /\ out.prev.op = "__rmul__"
          /\ out.prev.res = out.self /\ IsScalar(out.prev.other)
          /\ Len(SelfVal) = Len(OtherVal) =>
          Combined(ResJac, out.prev.other.s, AdJac(heap, out.prev.self), 1, OtherJac)
    /\ (Returned("__add__") \/ Returned("__radd__") \/ Returned("__sub__")
           \/ Returned("__rsub__")) /\ ~OtherIsAd =>
          LET sign == IF out.op \in {"__add__", "__radd__"} THEN 1 ELSE -1
              refl == IF out.op = "__rsub__" THEN -1 ELSE 1
          IN  /\ Len(OtherVal) \in {1, Len(SelfVal)} =>
                    /\ Len(ResVal) = Len(SelfVal)
                    /\ \A i \in 1..Len(ResVal) :
                          ResVal[i] = refl * (SelfVal[i] + sign * Broadcast(OtherVal, i))
              /\ Scaled(ResJac, refl, SelfJac)

\* 2*a + b was computed for two different seeds a, b of length 1 among four
\* unknowns
C14_Witness ==
    /\ Returned("__add__") /\ OtherIsAd
    /\ out.prev.op = "__rmul__" /\ out.prev.res = out.self /\ out.prev.other = PyInt(2)
    /\ out.prev.self # out.other.s
    /\ ResJac.e = <<<<2, 0, 0, 1>>>>

\* J = diag(d) * K + diag(f) * L
ProductRule(J, d, K, f, L) ==
    /\ SameShape(J, K) /\ SameShape(J, L)
    /\ \A r \in 1..J.rows, c \in 1..J.cols :
          J.e[r][c] = d[r] * K.e[r][c] + f[r] * L.e[r][c]
\* the call before the last one was the method op on the operands of the last
\* call in the other order, and returned
Swapped(op) ==
    /\ out.prev.op = op /\ out.prev.err = ""
    /\ out.prev.self = out.other.s /\ out.prev.other = Ref(out.self)
IsIdentity(J) ==
    /\ IsSpMatrix(J) /\ J.rows = J.cols
    /\ \A r \in 1..J.rows, c \in 1..J.cols : J.e[r][c] = IF r = c THEN 1 ELSE 0

(* C16: for Ad_arrays a and b of equal length over the same unknowns, a*b  *)
(* has the elementwise product as its value and the Jacobian diag(b.val) * *)
(* a.jac + diag(a.val) * b.jac; a*b and b*a are equal; for a seed x with   *)
(* the identity as Jacobian, (x*x).jac = diag(2 * x.val).                  *)
C16_ProductRule ==
    Returned("__mul__") /\ OtherIsAd /\ Len(SelfVal) = Len(OtherVal) =>
        /\ Len(ResVal) = Len(SelfVal)
        /\ \A i \in 1..Len(ResVal) : ResVal[i] = SelfVal[i] * OtherVal[i]
        /\ ProductRule(ResJac, OtherVal, SelfJac, SelfVal, OtherJac)
        /\ Swapped("__mul__") =>
              /\ AdVal(heap, out.res) = AdVal(heap, out.prev.res)
              /\ ResJac = AdJac(heap, out.prev.res)
        /\ out.other.s = out.self /\ IsIdentity(SelfJac) =>
              /\ SameShape(ResJac, SelfJac)
              /\ \A r \in 1..ResJac.rows, c \in 1..ResJac.cols :
                    ResJac.e[r][c] = IF r = c THEN 2 * SelfVal[r] ELSE 0

\* b*a was computed after a*b for the seeds a = [3] and b = [2] of a list
C16_Witness ==
    /\ Returned("__mul__") /\ OtherIsAd /\ Swapped("__mul__")
    /\ out.self # out.other.s
    /\ ResVal = <<6>>
    /\ ResJac.e = <<<<2, 0, 0, 3>>>>

\* J = diag(d) * K: row r of K scaled by d[r], d[1] for a scalar
RowScaled(J, d, K) ==
    /\ SameShape(J, K)
    /\ \A r \in 1..J.rows, c \in 1..J.cols : J.e[r][c] = Broadcast(d, r) * K.e[r][c]
\* the last call had a plain scalar, or a plain array of the length of self
PlainOfLength == ~OtherIsAd /\ (IsScalar(out.other) \/ Len(OtherVal) = Len(SelfVal))

(* C17: for an Ad_array x of length n and a plain scalar c or a plain      *)
(* array c of length n, x*c (__mul__) and c*x (__rmul__) both return an    *)
(* Ad_array with the value c*x.val elementwise and the Jacobian diag(c) *  *)
(* x.jac, row i of x.jac scaled by c_i; the two orders give one result.    *)
C17_ConstantScaling ==
    (Returned("__mul__") \/ Returned("__rmul__")) /\ PlainOfLength =>
        /\ Len(ResVal) = Len(SelfVal)
        /\ \A i \in 1..Len(ResVal) : ResVal[i] = Broadcast(OtherVal, i) * SelfVal[i]
        /\ RowScaled(ResJac, OtherVal, SelfJac)
        /\ out.prev.op \in {"__mul__", "__rmul__"} /\ out.prev.op # out.op
              /\ out.prev.err = "" /\ out.prev.self = out.self
              /\ out.prev.other = out.other =>
              /\ AdVal(heap, out.res) = AdVal(heap, out.prev.res)
              /\ ResJac = AdJac(heap, out.prev.res)

\* base to a non-negative integer power
RECURSIVE ToThe(_, _)
ToThe(b, e) == IF e = 0 THEN 1 ELSE b * ToThe(b, e - 1)
\* the last call had a plain integer exponent: a Python int, a numpy integer,
\* or an integer array of the length of self
IntegerExponent ==
    /\ ~OtherIsAd
    /\ \/ IsInteger(out.other)
       \/ IsNdArray(out.other) /\ out.other.dtype = "int64" /\ Len(OtherVal) = Len(SelfVal)

(* C18: for an Ad_array x and a plain integer exponent e (a Python int, a  *)
(* numpy integer, or an integer array of the length of x), x**e has the    *)
(* value x.val^e and the Jacobian diag(e * x.val^(e-1)) * x.jac; for e = 2 *)
(* value and Jacobian are those of x*x; the seed 3 squared has the value 9 *)
(* and the Jacobian [[6]].                                                 *)
C18_PowerRule ==
    Returned("__pow__") /\ IntegerExponent =>
        /\ Len(ResVal) = Len(SelfVal)
        /\ \A i \in 1..Len(ResVal) : ResVal[i] = ToThe(SelfVal[i], Broadcast(OtherVal, i))
        /\ RowScaled(ResJac,
                     [i \in 1..Len(SelfVal) |->
                         Broadcast(OtherVal, i) * ToThe(SelfVal[i], Broadcast(OtherVal, i) - 1)],
                     SelfJac)
        /\ out.other \in {PyInt(2), NpInteger(2)} /\ out.prev.op = "__mul__"
              /\ out.prev.err = "" /\ out.prev.self = out.self
              /\ out.prev.other = Ref(out.self) =>
              /\ ResVal = Entries(AdVal(heap, out.prev.res))
              /\ ResJac = AdJac(heap, out.prev.res)
        /\ SelfVal = <<3>> /\ IsIdentity(SelfJac) /\ out.other = PyInt(2) =>
              ResVal = <<9>> /\ ResJac.e = <<<<6>>>>

\* x**2 was computed after x*x for the seed x = [3]
C18_Witness ==
    /\ Returned("__pow__") /\ out.other = PyInt(2)
    /\ out.prev.op = "__mul__" /\ out.prev.other = Ref(out.self)
    /\ IsNdArray(AdVal(heap, out.self))
    /\ ResVal = <<9>> /\ ResJac.e = <<<<6>>>>

\* the natural logarithm of the bases, in thousandths
Ln(b) == IF b = 2 THEN 693 ELSE IF b = 3 THEN 1099 ELSE 0

(* C19: for a plain positive scalar base and an Ad_array x, whether x.val  *)
(* is an array, a Python int or another scalar such as a float, base ** x  *)
(* returns after finitely many steps an Ad_array with the value            *)
(* base^x.val and the Jacobian diag(base^x.val * ln(base)) * x.jac.        *)
C19_RightPower ==
    out.op = "__rpow__" /\ ~OtherIsAd =>
        /\ out.err = ""
        /\ Len(ResVal) = Len(SelfVal)
        /\ \A i \in 1..Len(ResVal) : ResVal[i] = ToThe(out.other.s, SelfVal[i])
        /\ RowScaled(ResJac,
                     [i \in 1..Len(SelfVal) |-> ToThe(out.other.s, SelfVal[i]) * Ln(out.other.s)],
                     SelfJac)

\* an in-place assignment by the holder of who leaves value and Jacobian of
\* the Ad_array kept unchanged
LeavesUnchanged(who, kept) ==
    out'.op = "setitem" /\ out'.self = who =>
        /\ AdVal(heap', kept) = AdVal(heap, kept)
        /\ AdJac(heap', kept) = AdJac(heap, kept)

(* C20: c = x.copy() has the value and the Jacobian of x, and no later     *)
(* in-place assignment to c.val, to c.jac, or to a matrix of c.jac when    *)
(* the Jacobian is an array of the matrices of the components, changes x,  *)
(* nor does one to x change c.                                             *)
C20_CopyIndependent ==
    /\ [](Returned("copy") =>
             /\ AdVal(heap, out.res) = AdVal(heap, out.self)
             /\ AdJac(heap, out.res) = AdJac(heap, out.self))
    /\ [][Returned("copy") =>
             /\ LeavesUnchanged(out.res, out.self)
             /\ LeavesUnchanged(out.self, out.res)]_vars

(***************************************************************************)
(* Who owns what (forward_mode.py, functions.py).  The caller keeps the    *)
(* vectors it seeded from and the operands of a call, and may assign to    *)
(* their entries in place afterwards.                                      *)
(***************************************************************************)
\* the vectors and numbers that are seeded for the elementary functions
FunSeedArgs ==
    {[list |-> FALSE, v |-> v] :
        v \in {NdArray(<<3, 4>>, "float64"), NdArray(<<0, 0, -3, 4>>, "float64"),
               PyFloat(3), PyInt(2)}}
    \cup {[list |-> TRUE, items |-> <<NdArray(<<3, 4>>, "float64"), NdArray(<<3, 2>>, "float64")>>]}

\* the k-th vector that was passed to initAdArrays in the last call
SeededVector(k) == IF out.other.list THEN out.other.items[k] ELSE out.other.v
MethodNames ==
    {"__add__", "__radd__", "__sub__", "__rsub__", "__mul__", "__rmul__", "__pow__",
     "__rpow__", "__neg__", "copy", "maximum", "l2_norm", "abs"}

\* v[i] = x by the caller, v the k-th vector it seeded from (i is 0-based)
SetVectorItem(k, i, x) ==
    /\ nops < MaxAdOps
    /\ out.op = "initAdArrays" /\ out.err = ""
    /\ k \in 1..Len(out.res)
    /\ SeededVector(k).kind = "ref"
    /\ i < heap[SeededVector(k).s].len
    /\ heap' = SetItem(heap, SeededVector(k).s, i, x)
    /\ out' = [op |-> "setitem_seed", self |-> 0, other |-> SeededVector(k), err |-> "",
               res |-> out.res]
    /\ nops' = nops + 1
    /\ UNCHANGED <<dofVars, refs, pool>>

\* ad.val[i] = x by the caller, ad an operand of the last call
SetOperandItem(ad, i, x) ==
    /\ nops < MaxAdOps
    /\ out.op \in MethodNames /\ out.err = "" /\ out.res # 0
    /\ ad = out.self \/ out.other = Ref(ad)
    /\ heap[ad].val.kind = "ref"
    /\ i < heap[heap[ad].val.s].len
    /\ heap' = SetItem(heap, heap[ad].val.s, i, x)
    /\ out' = [op |-> "setitem_operand", self |-> ad, other |-> out.other, err |-> "",
               res |-> out.res]
    /\ nops' = nops + 1
    /\ UNCHANGED <<dofVars, refs, pool>>

\* ad.jac[r, c] = x by the caller, ad an operand of the last call
SetOperandJacItem(ad, r, c, x) ==
    /\ nops < MaxAdOps
    /\ out.op \in MethodNames /\ out.err = "" /\ out.res # 0
    /\ ad = out.self \/ out.other = Ref(ad)
    /\ IsSpMatrix(AdJac(heap, ad))
    /\ r \in 1..AdJac(heap, ad).rows /\ c \in 1..AdJac(heap, ad).cols
    /\ heap' = [heap EXCEPT ![heap[ad].jac.s].e[r][c] = x]
    /\ out' = [op |-> "setitem_operand", self |-> ad, other |-> out.other, err |-> "",
               res |-> out.res]
    /\ nops' = nops + 1
    /\ UNCHANGED <<dofVars, refs, pool>>

(***************************************************************************)
(* Operations that assign to attributes of an object (forward_mode.py).    *)
(* __neg__ and __sub__ rebind val and jac of b = x.copy(); b is an object  *)
(* of the heap, so that the object the statements work on is visible.      *)
(***************************************************************************)
\* a faulty variant: b is the object itself
CopyOf_Same(h, id) == [h |-> h, id |-> id]

\* b = x.copy() for the Ad_array object id: b is a new object
CopyOf(h, id) == NewAd(h, copy(h, h[id]))

\* b.val = -b.val; b.jac = -b.jac
Negate(h, b) ==
    LET v == Bind(h, negative(Load(h, h[b].val)))
        J == Bind(v.h, negative(AdJac(v.h, b)))
    IN  [J.h EXCEPT ![b].val = v.v, ![b].jac = J.v]

\* -self as an object: [h, id, err]
NegObject(h, self) ==
    LET b == CopyOf(h, self)
    IN  [h |-> Negate(b.h, b.id), id |-> b.id, err |-> ""]

\* self - other as an object; the object of _cast(other) is other itself or
\* a new Ad_array
SubObject(h, self, other) ==
    LET c == IF other.kind = "ref" THEN [h |-> h, id |-> other.s] ELSE NewAd(h, _cast(other))
        b == CopyOf(c.h, c.id)
        n == Negate(b.h, b.id)
        r == __add__(n, n[self], n[b.id])
    IN  IF IsExc(r) THEN [h |-> n, id |-> 0, err |-> r.err]
        ELSE LET new == NewAd(n, r) IN [h |-> new.h, id |-> new.id, err |-> ""]

\* a call whose result new = [h, id, err] is an object of the heap already
Effect(name, self, other, new) ==
    /\ nops < MaxAdOps
    /\ heap' = new.h
    /\ pool' = IF new.err # "" THEN pool ELSE Append(pool, new.id)
    /\ out' = [op |-> name, self |-> self, other |-> other, err |-> new.err, res |-> new.id,
               prev |-> Call(out)]
    /\ nops' = nops + 1
    /\ UNCHANGED <<dofVars, refs>>

NegOnCopy(self) ==
    /\ self \in Operands
    /\ Effect("__neg__", self, PyInt(0), NegObject(heap, self))

SubOnCopy(self, other) ==
    /\ self \in Operands /\ IsOperand(other)
    /\ Effect("__sub__", self, other, SubObject(heap, self, other))

(***************************************************************************)
(* Functions on Ad_arrays (functions.py).                                  *)
(***************************************************************************)
\* isinstance(x, (float, int))
IsPyNumber(x) == x.kind \in {"int", "float"}

Max(a, b) == IF b >= a THEN b ELSE a

\* np.maximum(x, y) on plain values, with broadcasting
np_maximum(x, y) ==
    IF IsScalar(x) /\ IsScalar(y) THEN [kind |-> ScalarKind(x, y), s |-> Max(x.s, y.s)]
    ELSE IF IsNdArray(x) /\ IsNdArray(y) /\ size(x) # size(y) /\ size(x) # 1 /\ size(y) # 1
    THEN Exc("ValueError")
    ELSE LET n == IF IsScalar(x) THEN size(y)
                  ELSE IF IsScalar(y) THEN size(x)
                  ELSE Max(size(x), size(y))
         IN  NdArray([i \in 1..n |-> Max(At(x, i), At(y, i))], ArrayDtype(x, y))

\* np.ones_like(x) * y
ones_like_mul(x, y) ==
    elementwise("*", IF IsScalar(x) THEN [kind |-> x.kind, s |-> 1]
                     ELSE NdArray([i \in 1..size(x) |-> 1], x.dtype), y)

\* inds.nonzero()[0]: the positions that hold True, ascending
nonzero(inds) == SelectSeq([i \in 1..Len(inds) |-> i], LAMBDA i : inds[i])

\* pp.matrix_operations.slice_mat(A, ind) for a csr matrix: the rows ind of A
slice_mat(A, ind) ==
    IF \E k \in 1..Len(ind) : ind[k] > A.rows THEN Exc("IndexError")
    ELSE SpMatrix(Len(ind), A.cols, [k \in 1..Len(ind) |-> A.e[ind[k]]])

\* pp.matrix_operations.merge_matrices(A, B, lines, format): the rows lines
\* of A are replaced by the rows of B, in place
merge_matrices(A, B, lines) ==
    IF IsExc(B) THEN B
    ELSE IF B.cols # A.cols THEN Exc("ValueError")
    ELSE SpMatrix(A.rows, A.cols,
                  [i \in 1..A.rows |->
                      IF \E k \in 1..Len(lines) : lines[k] = i
                      THEN B.e[CHOOSE k \in 1..Len(lines) : lines[k] = i]
                      ELSE A.e[i]])

\* maximum(var_0, var_1), at least one of the two an Ad_array
maximum(h, var_0, var_1) ==
    IF ~IsAd(var_0) /\ ~IsAd(var_1) THEN np_maximum(var_0, var_1)
    ELSE
    LET J == Load(h, (IF IsAd(var_0) THEN var_0 ELSE var_1).jac)
    IN  IF ~IsSpMatrix(J) THEN Exc("AttributeError")
        ELSE
        LET zero_jac == sps_zeros(J.rows, J.cols)
            v0 == IF IsAd(var_0) THEN Load(h, var_0.val) ELSE var_0
            j0 == IF IsAd(var_0) THEN Load(h, var_0.jac) ELSE zero_jac
            v1 == IF IsAd(var_1) THEN Load(h, var_1.val) ELSE var_1
            j1 == IF IsAd(var_1) THEN Load(h, var_1.jac) ELSE zero_jac
        IN  IF IsPyNumber(v0) /\ IsPyNumber(v1)
            THEN Ad_array([kind |-> IF v0.kind = "int" /\ v1.kind = "int" THEN "np.integer"
                                    ELSE "float",
                           s |-> Max(v0.s, v1.s)], PyInt(0))
            ELSE
            LET b0 == IF IsPyNumber(v0) THEN v0 ELSE ones_like_mul(v1, v0)
                b1 == IF IsPyNumber(v1) THEN ones_like_mul(b0, v1) ELSE v1
            IN  IF IsExc(b0) THEN b0
                ELSE IF IsExc(b1) THEN b1
                ELSE IF IsPyNumber(b0) THEN Exc("AttributeError")
                ELSE IF size(b1) # size(b0) THEN Exc("IndexError")
                ELSE
                LET inds == [i \in 1..size(b0) |-> b1.a[i] >= b0.a[i]]
                    max_val == NdArray([i \in 1..size(b0) |->
                                           IF inds[i] THEN b1.a[i] ELSE b0.a[i]], b0.dtype)
                    lines == IF IsSpMatrix(j1) THEN slice_mat(j1, nonzero(inds))
                             ELSE Exc("AttributeError")
                IN  Ad_array(max_val, merge_matrices(j0, lines, nonzero(inds)))

\* np.sign and np.abs, entry by entry
Sign(n) == IF n > 0 THEN 1 ELSE IF n < 0 THEN -1 ELSE 0
np_sign(x) ==
    IF IsExc(x) THEN x
    ELSE IF IsScalar(x) THEN [kind |-> x.kind, s |-> Sign(x.s)]
    ELSE NdArray([i \in 1..size(x) |-> Sign(x.a[i])], x.dtype)
np_abs(x) ==
    IF IsExc(x) THEN x
    ELSE IF IsScalar(x) THEN [kind |-> x.kind, s |-> Sign(x.s) * x.s]
    ELSE NdArray([i \in 1..size(x) |-> Sign(x.a[i]) * x.a[i]], x.dtype)

\* sign(var), var an Ad_array: np.sign(var.val)
sign(h, var) == np_sign(Load(h, var.val))

\* abs(var), var an Ad_array
abs(h, var) == Ad_array(np_abs(Load(h, var.val)), diagvec_mul_jac(h, var, sign(h, var)))

\* the square root of n, rounded down; exact on the squares
Sqrt(n) == CHOOSE r \in 0..n : r * r <= n /\ (r + 1) * (r + 1) > n
\* x / n in thousandths
Ratio(x, n) == (1000 * x) \div n

\* np.linalg.norm(resh, axis=0) for resh = np.reshape(a, (dim, -1), order="F"):
\* column j of resh holds the entries (j - 1) * dim + 1 .. j * dim of a
norms(a, dim) ==
    [j \in 1..(Len(a) \div dim) |->
        Sqrt(SeqSum([d \in 1..dim |-> a[(j - 1) * dim + d] * a[(j - 1) * dim + d]]))]

\* a faulty variant: the groups are taken with the stride of order="C"
l2_norm_OrderC(h, dim, var) ==
    IF dim = 1 THEN abs(h, var)
    ELSE
    LET x == Load(h, var.val)
        n == IF IsScalar(x) THEN 1 ELSE size(x)
        m == n \div dim
    IN  IF n % dim # 0 THEN Exc("ValueError")
        ELSE
        LET vals == [j \in 1..m |->
                        Sqrt(SeqSum([d \in 1..dim |-> x.a[(d - 1) * m + j] * x.a[(d - 1) * m + j]]))]
            norm_jac == SpMatrix(m, n,
                                 [i \in 1..m |-> [k \in 1..n |->
                                     IF ((k - 1) % m) + 1 = i /\ vals[i] > 0
                                     THEN Ratio(x.a[k], vals[i]) ELSE 0]])
        IN  Ad_array(NdArray(vals, "float64"), sp_mul(norm_jac, Load(h, var.jac)))

\* l2_norm(dim, var), var an Ad_array; for dim >= 2 the entries of the
\* Jacobian are in thousandths
l2_norm(h, dim, var) ==
    IF dim = 1 THEN abs(h, var)
    ELSE
    LET x == Load(h, var.val)
        n == IF IsScalar(x) THEN 1 ELSE size(x)
    IN  IF n % dim # 0 THEN Exc("ValueError")
        ELSE
        LET vals == norms(x.a, dim)
            \* jac_vals.ravel("F"): entry k belongs to column (k - 1) \div dim + 1
            jac_vals == [k \in 1..n |->
                            LET j == (k - 1) \div dim + 1
                            IN  IF vals[j] > 0 THEN Ratio(x.a[k], vals[j]) ELSE 0]
            norm_jac == SpMatrix(n \div dim, n,
                                 [i \in 1..(n \div dim) |-> [k \in 1..n |->
                                     IF (k - 1) \div dim + 1 = i THEN jac_vals[k] ELSE 0]])
        IN  Ad_array(NdArray(vals, "float64"), sp_mul(norm_jac, Load(h, var.jac)))

\* a call of the function name on the arguments args, r its result: an
\* Ad_array, which becomes an object, a plain value or an exception
FunctionCall(name, args, r, held) ==
    /\ nops < MaxAdOps
    /\ LET isAd == ~IsExc(r) /\ IsAd(r)
           new == IF isAd THEN NewAd(heap, r) ELSE [h |-> heap, id |-> 0]
           ids == SelectSeq(args, LAMBDA x : x.kind = "ref")
       IN  /\ heap' = new.h
           /\ pool' = IF isAd /\ held THEN Append(pool, new.id) ELSE pool
           /\ out' = [op |-> name, args |-> args,
                      self |-> IF ids = <<>> THEN 0 ELSE ids[1].s,
                      other |-> IF Len(ids) = 2 THEN ids[2] ELSE PyInt(0),
                      err |-> IF IsExc(r) THEN r.err ELSE "", res |-> new.id,
                      plain |-> IF IsExc(r) \/ isAd THEN PyInt(0) ELSE r,
                      prev |-> IF out = NoOut THEN NoOut ELSE Call(out)]
    /\ nops' = nops + 1
    /\ UNCHANGED <<dofVars, refs>>

\* plain arguments of maximum
MaxOperands ==
    {PyFloat(4), PyInt(2), NdArray(<<3, 5>>, "float64"), NdArray(<<5, 1>>, "float64")}

Maximum(var_0, var_1) ==
    /\ IsOperand(var_0) /\ IsOperand(var_1)
    /\ var_0.kind = "ref" \/ var_1.kind = "ref"
    /\ FunctionCall("maximum", <<var_0, var_1>>, maximum(heap, Arg(var_0), Arg(var_1)), TRUE)

\* the norms and the ratios of l2_norm(dim, var) are whole numbers of the model
ExactNorms(a, dim) ==
    \A j \in 1..(Len(a) \div dim) :
        LET q == SeqSum([d \in 1..dim |-> a[(j - 1) * dim + d] * a[(j - 1) * dim + d]])
            r == Sqrt(q)
        IN  /\ r * r = q
            /\ r > 0 => \A d \in 1..dim : (1000 * a[(j - 1) * dim + d]) % r = 0

\* l2_norm(dim, var); the result for dim >= 2, its Jacobian in thousandths, is
\* not an operand of later calls
L2Norm(dim, var) ==
    /\ var.s \in Operands
    /\ dim > 1 /\ IsNdArray(AdVal(heap, var.s)) => ExactNorms(AdVal(heap, var.s).a, dim)
    /\ FunctionCall("l2_norm", <<PyInt(dim), var>>, l2_norm(heap, dim, heap[var.s]), dim = 1)

Abs(var) ==
    /\ var.s \in Operands
    /\ FunctionCall("abs", <<var>>, abs(heap, heap[var.s]), TRUE)

\* the functions whose branch for an argument that is no Ad_array is
\* "return np.f(var)", or an expression of numpy functions of var
NumpyFunctions ==
    {"exp", "log", "sin", "cos", "tan", "arcsin", "arccos", "arctan", "sinh", "cosh", "tanh",
     "arcsinh", "arccosh", "arctanh", "heaviside", "heaviside_smooth"}
LibraryFunctions == NumpyFunctions \cup {"abs", "l2_norm", "maximum", "characteristic_function"}

\* np.f(var): the array of the f(var[i]), not evaluated
np_apply(f, var) == [kind |-> "ndarray", dtype |-> "float64", f |-> f, of |-> var]

\* f(var), or f(dim, var), f(tol, var), f(var, var), for the function f of
\* the library and a plain array var
plain_call(f, dim, var) ==
    CASE f \in NumpyFunctions -> np_apply(f, var)
      [] f = "abs" -> np_abs(var)
      [] f = "maximum" -> np_maximum(var, var)
      \* dim == 1: abs(var); else var.val of an ndarray
      [] f = "l2_norm" -> IF dim = 1 THEN np_abs(var) ELSE Exc("AttributeError")
      \* var.val.size of an ndarray
      [] f = "characteristic_function" -> Exc("AttributeError")

PlainArgs == {NdArray(<<3, 4>>, "float64"), NdArray(<<0, 0, -3, 4>>, "float64")}

PlainCall(f, dim, var) ==
    /\ f # "l2_norm" => dim = 1
    /\ FunctionCall(f, <<PyInt(dim), var>>, plain_call(f, dim, var), TRUE)

NextFun ==
    \/ \E variables \in FunSeedArgs : InitAdArrays(variables)
    \/ CanOperate /\ \E self \in Operands, other \in AdOperands \cup PlainScalars \cup PlainArrays :
                        Add(self, other)
    \/ CanOperate /\ \E self \in Operands, other \in AdOperands \cup PlainScalars \cup PlainArrays :
                        Mul(self, other)
    \/ CanOperate /\ \E self \in Operands : NegOnCopy(self)
    \/ CanOperate /\ \E self \in Operands, other \in AdOperands \cup PlainScalars \cup PlainArrays :
                        SubOnCopy(self, other)
    \/ nops < MaxAdOps /\ \E i \in 1..Len(pool) : Copy(pool[i])
    \/ CanOperate /\ \E var_0, var_1 \in AdOperands \cup MaxOperands : Maximum(var_0, var_1)
    \/ CanOperate /\ \E dim \in {1, 2, 4}, var \in AdOperands : L2Norm(dim, var)
    \/ CanOperate /\ \E var \in AdOperands : Abs(var)
    \/ nops < MaxAdOps /\ \E f \in LibraryFunctions, dim \in {1, 2}, var \in PlainArgs :
                             PlainCall(f, dim, var)
    \/ out.op = "initAdArrays" /\ \E k \in 1..2, i \in 0..1 : SetVectorItem(k, i, -1)
    \/ out.op \in MethodNames /\ \E ad \in Operands, i \in 0..1 : SetOperandItem(ad, i, -1)
    \/ out.op \in MethodNames /\ \E ad \in Operands, r \in 1..2, c \in 1..2 :
                                    SetOperandJacItem(ad, r, c, -1)

SpecFun == InitAd /\ [][NextFun]_vars

\* the Ad_array id reads the same before and after the step
Unchanged(id) ==
    /\ AdVal(heap', id) = AdVal(heap, id)
    /\ AdJac(heap', id) = AdJac(heap, id)

(* C21: an Ad_array shares no storage with the vectors it was seeded from  *)
(* nor with the operands it was computed from: after x = initAdArrays(v),  *)
(* for one vector or a list, an in-place assignment to v does not change   *)
(* x, and after r = op(a, b) one to a or b does not change r.              *)
C21_ExclusiveOwnership ==
    [][/\ out'.op = "setitem_seed" => \A k \in 1..Len(out.res) : Unchanged(out.res[k])
       /\ out'.op = "setitem_operand" => Unchanged(out.res)]_vars

ValueOf(x) == IF x.kind = "ref" THEN AdVal(heap, x.s) ELSE x
RowOf(x, i, cols) ==
    IF x.kind # "ref" THEN [j \in 1..cols |-> 0]
    ELSE LET J == AdJac(heap, x.s) IN J.e[IF J.rows = 1 THEN 1 ELSE i]
ColumnsOf(args) ==
    LET x == CHOOSE x \in {args[k] : k \in 1..Len(args)} : x.kind = "ref"
    IN  AdJac(heap, x.s).cols

\* the result of the last call has the values and the rows of the rule "b
\* where b >= a, else a" for a, b = args
TieBreakRule ==
    LET a == out.args[1]
        b == out.args[2]
        n == Max(Len(Entries(ValueOf(a))), Len(Entries(ValueOf(b))))
        cols == ColumnsOf(out.args)
        J == AdJac(heap, out.res)
    IN  /\ Entries(AdVal(heap, out.res)) =
              [i \in 1..n |-> Max(At(ValueOf(a), i), At(ValueOf(b), i))]
        /\ IsSpMatrix(J)
        /\ J.e = [i \in 1..n |-> IF At(ValueOf(b), i) >= At(ValueOf(a), i)
                                 THEN RowOf(b, i, cols) ELSE RowOf(a, i, cols)]

(* C23: for a and b of which at least one is an Ad_array, the value of     *)
(* maximum(a, b) is the elementwise maximum and row i of its Jacobian is   *)
(* row i of b's Jacobian where b.val[i] >= a.val[i] and row i of a's       *)
(* otherwise, a plain operand having zero rows; also for an Ad_array whose *)
(* value is a scalar.                                                      *)
C23_MaximumTieBreak ==
    /\ out.op = "maximum" /\ out.err = ""
    /\ \E k \in 1..2 : out.args[k].kind = "ref"
    => TieBreakRule

\* the last call is maximum of the array-valued Ad_array args[k], whose
\* Jacobian has a row per entry, and the plain Python number args[3 - k]
ScalarWith(k) ==
    /\ out.op = "maximum"
    /\ out.args[k].kind = "ref" /\ IsPyNumber(out.args[3 - k])
    /\ IsNdArray(ValueOf(out.args[k]))
    /\ size(ValueOf(out.args[k])) = AdJac(heap, out.args[k].s).rows

(* C24: maximum broadcasts a scalar operand on either side: for an         *)
(* Ad_array x of length n and a plain scalar c, maximum(x, c) and          *)
(* maximum(c, x) both succeed and return an Ad_array of length n with the  *)
(* values max(x.val[i], c) and the Jacobian rows of the rule of C23, the   *)
(* rows of the scalar being zero.                                          *)
C24_ScalarBroadcast ==
    \A k \in 1..2 :
        ScalarWith(k) =>
            /\ out.err = ""
            /\ size(AdVal(heap, out.res)) = size(ValueOf(out.args[k]))
            /\ TieBreakRule

\* the last call is l2_norm(dim, x) with x an Ad_array of a whole number of
\* groups of dim entries, its Jacobian having a row per entry
NormOf(dim) ==
    /\ out.op = "l2_norm" /\ out.args[1].s = dim
    /\ out.args[2].kind = "ref"
    /\ LET x == ValueOf(out.args[2])
       IN  /\ IsNdArray(x) /\ size(x) % dim = 0
           /\ AdJac(heap, out.args[2].s).rows = size(x)

\* the entries k of group i
Group(i, dim) == ((i - 1) * dim + 1)..(i * dim)
RECURSIVE SetSum(_, _)
SetSum(f, S) == IF S = {} THEN 0 ELSE LET k == CHOOSE k \in S : TRUE IN f[k] + SetSum(f, S \ {k})

(* C26: for dim >= 2 and an Ad_array x whose length is a multiple of dim,  *)
(* l2_norm(dim, x) has length len(x) / dim; its i-th value is the          *)
(* Euclidean norm of the entries of group i, and row i of its Jacobian is  *)
(* the sum over the entries k of the group of x.val[k] / norm_i times row  *)
(* k of x.jac, a zero row where the norm is zero (not above 1e-12); for    *)
(* dim = 1 the result is abs(x): the values |x| and the Jacobian           *)
(* diag(sign(x)) * x.jac.  Jacobian entries for dim >= 2 in thousandths.   *)
C26_L2Norm ==
    \A dim \in {1, 2, 4} :
        NormOf(dim) =>
            /\ out.err = ""
            /\ LET x == ValueOf(out.args[2]).a
                   Jx == AdJac(heap, out.args[2].s)
                   v == AdVal(heap, out.res)
                   J == AdJac(heap, out.res)
               IN  /\ IsNdArray(v) /\ size(v) = Len(x) \div dim
                   /\ IsSpMatrix(J) /\ shape(J) = <<size(v), Jx.cols>>
                   /\ dim = 1 =>
                         \A i \in 1..size(v) :
                             /\ v.a[i] = IF x[i] < 0 THEN -x[i] ELSE x[i]
                             /\ \A c \in 1..J.cols :
                                    J.e[i][c] = (IF x[i] < 0 THEN -1 ELSE IF x[i] > 0 THEN 1 ELSE 0)
                                                * Jx.e[i][c]
                   /\ dim > 1 =>
                         \A i \in 1..size(v) :
                             /\ v.a[i] >= 0
                             /\ v.a[i] * v.a[i] = SetSum([k \in Group(i, dim) |-> x[k] * x[k]],
                                                         Group(i, dim))
                             /\ \A c \in 1..J.cols :
                                    IF v.a[i] = 0 THEN J.e[i][c] = 0
                                    ELSE v.a[i] * J.e[i][c] =
                                           1000 * SetSum([k \in Group(i, dim) |-> x[k] * Jx.e[k][c]],
                                                         Group(i, dim))

\* l2_norm(2, x) for x seeded from [0, 0, -3, 4]: the norms 0 and 5, a zero row
\* and the row of -3/5 and 4/5
C26_Witness ==
    /\ NormOf(2) /\ out.err = ""
    /\ out.prev.op = "initAdArrays"
    /\ AdVal(heap, out.res).a = <<0, 5>>
    /\ AdJac(heap, out.res).e = <<<<0, 0, 0, 0>>, <<0, 0, -600, 800>>>>

\* the last call is f on plain arrays only
PlainOnly == out.op \in LibraryFunctions /\ \A k \in 1..Len(out.args) : out.args[k].kind # "ref"

(* C25: every function of the library (exp, log, abs, the trigonometric    *)
(* and hyperbolic functions and their inverses, heaviside,                 *)
(* heaviside_smooth, l2_norm for any dim, maximum,                         *)
(* characteristic_function), given a plain array instead of an Ad_array,   *)
(* returns without raising the plain result of the underlying function,    *)
(* with no Jacobian attached.                                              *)
C25_PlainPassThrough ==
    PlainOnly =>
        /\ out.err = ""
        /\ out.res = 0
        /\ IsNdArray(out.plain)

(***************************************************************************)
(* distribute_variable and assemble_variable next to what else is stored   *)
(* (dof_manager.py).  The dictionaries of the grids hold, before the first *)
(* call, values that the user of the grids stored under the names of       *)
(* VariableNames that are not registered for the grid.                     *)
(***************************************************************************)
ForeignState == <<7>>
ForeignIterate == <<8>>

InitFrame ==
    /\ mdg \in {MdgTwoSubdomains, MdgWithInterface}
    /\ block_dof = DofManagerInit(mdg).block_dof
    /\ full_dof = DofManagerInit(mdg).full_dof
    /\ data = [g \in GridLike |->
                  IF \A n \in VariableNames : <<g, n>> \in Registered THEN NoState
                  ELSE [has_state |-> TRUE, has_iterate |-> TRUE,
                        state |-> [n \in VariableNames |->
                                      IF <<g, n>> \in Registered THEN NoSlot
                                      ELSE Slot(ForeignState)],
                        iterate |-> [n \in VariableNames |->
                                        IF <<g, n>> \in Registered THEN NoSlot
                                        ELSE Slot(ForeignIterate)]]]
    /\ ncalls = 0
    /\ ret = NoCall
    /\ MemInit

SpecFrame == InitFrame /\ [][NextStore]_vars

\* the step is a call of distribute_variable
Distributes == Ready /\ ret'.op = "distribute_variable"

(* C27: distribute_variable with to_iterate=True changes only entries of   *)
(* the iterate store and with to_iterate=False only entries of the state   *)
(* store; the stored values of every (grid, variable) block outside the    *)
(* selection and of every name that is no registered variable of the grid  *)
(* are as before the call.                                                 *)
C27_DistributeFrame ==
    [][Distributes =>
          \A g \in GridLike, n \in VariableNames :
              LET a == ret'.args
                  written == <<g, n>> \in Registered /\ Selected(<<g, n>>, a.grids, a.variables)
              IN  /\ (a.to_iterate \/ ~written) => data'[g].state[n] = data[g].state[n]
                  /\ (~a.to_iterate \/ ~written) => data'[g].iterate[n] = data[g].iterate[n]]_vars

\* a second call has written the iterate of a block whose state holds another
\* value, on a grid that holds the values stored under a name not registered
C27_Witness ==
    /\ ret.op = "distribute_variable" /\ ret.err = "none"
    /\ ncalls = 2
    /\ ret.args.to_iterate
    /\ \E gv \in Registered :
          /\ Selected(gv, ret.args.grids, ret.args.variables)
          /\ DofSet(gv) # {}
          /\ Stored(data, gv, FALSE).has
          /\ Stored(data, gv, TRUE) = Slot(Slice(ret.args.values, gv))
          /\ Stored(data, gv, TRUE) # Stored(data, gv, FALSE)
          /\ \E n \in VariableNames :
                /\ <<gv[1], n>> \notin Registered
                /\ data[gv[1]].state[n] = Slot(ForeignState)
                /\ data[gv[1]].iterate[n] = Slot(ForeignIterate)

\* the last call, or the call of this step, has a pair in its product that is
\* not registered
SkipsIn(a) == \E k \in 1..Len(ProductOf(a)) : ProductOf(a)[k] \notin Registered

(* C28: the pairs of the product of the lists passed to                    *)
(* distribute_variable or assemble_variable that were never registered are *)
(* skipped silently: they raise no lookup error, nothing is written for    *)
(* them, their would-be positions stay as they are (zero in the assembled  *)
(* vector), and the registered pairs of the product are processed as in a  *)
(* call without them.                                                      *)
C28_UnregisteredSkipped ==
    /\ [][Distributes /\ SkipsIn(ret'.args) =>
             LET a == ret'.args
                 known == SelectSeq(ProductOf(a), LAMBDA gv : gv \in Registered)
                 alone == distribute_loop(data, known, a.values, a.additive, a.to_iterate)
             IN  /\ data' = alone.data
                 /\ ret'.err = alone.res.err /\ ret'.key = alone.res.key
                 /\ ~a.additive => ret'.err = "none"
                 /\ \A k \in 1..Len(ProductOf(a)) :
                       LET gv == ProductOf(a)[k]
                       IN  gv \notin Registered =>
                               /\ data'[gv[1]].state[gv[2]] = data[gv[1]].state[gv[2]]
                               /\ data'[gv[1]].iterate[gv[2]] = data[gv[1]].iterate[gv[2]]]_vars
    /\ [](ret.op = "assemble_variable" /\ SkipsIn(ret.args) =>
             LET a == ret.args
                 known == SelectSeq(ProductOf(a), LAMBDA gv : gv \in Registered)
                 alone == assemble_loop([i \in 1..num_dofs |-> 0], known, a.from_iterate)
             IN  /\ ret.err = alone.err /\ ret.key = alone.key /\ ret.val = alone.val
                 /\ (\A gv \in Elems(known) : Stored(data, gv, a.from_iterate).has)
                       => /\ ret.err = "none"
                          /\ Len(ret.val) = num_dofs
                          /\ \A i \in 1..num_dofs :
                                (\A gv \in Elems(known) : (i - 1) \notin DofSet(gv))
                                    => ret.val[i] = 0)

\* a call without additive, with a grid that has the variable and one that has
\* a value stored under the name without having the variable, has written the
\* first and left the second
C28_Witness ==
    /\ ret.op = "distribute_variable" /\ ret.err = "none"
    /\ SkipsIn(ret.args)
    /\ ~ret.args.additive /\ ~ret.args.to_iterate
    /\ \E k, j \in 1..Len(ProductOf(ret.args)) :
          LET gv == ProductOf(ret.args)[k]
              un == ProductOf(ret.args)[j]
          IN  /\ gv \in Registered /\ DofSet(gv) # {}
              /\ Stored(data, gv, FALSE) = Slot(Slice(ret.args.values, gv))
              /\ un \notin Registered
              /\ Stored(data, un, FALSE) = Slot(ForeignState)

\* the first pair of the product at which the additive call a, in store d,
\* finds a registered block without a stored value
FirstMissing(d, a) == ProductOf(a)[Processed(d, a) + 1]

(* C29: distribute_variable(values, additive=True) fails with KeyError as  *)
(* soon as it reaches a selected registered block that has no stored value *)
(* in the target store (state or iterate); a missing value is never taken  *)
(* to be zero, and the failed call creates no value for that block.        *)
C29_AdditiveNeedsValue ==
    [][Distributes /\ ret'.args.additive =>
          LET a == ret'.args
              missing == {gv \in Registered :
                             /\ Selected(gv, a.grids, a.variables)
                             /\ ~Stored(data, gv, a.to_iterate).has}
          IN  /\ missing # {} <=> ret'.err = "KeyError"
              /\ missing = {} => ret'.err = "none"
              /\ missing # {} =>
                    /\ FirstMissing(data, a) \in missing
                    /\ ret'.key = <<FirstMissing(data, a)[2]>>
                    /\ \A gv \in missing : ~Stored(data', gv, a.to_iterate).has
                    \* the pairs from the failing one on are not processed
                    /\ \A k \in (Processed(data, a) + 1)..Len(ProductOf(a)) :
                          LET gv == ProductOf(a)[k]
                          IN  (\A j \in 1..Processed(data, a) : ProductOf(a)[j] # gv)
                                  => Stored(data', gv, a.to_iterate)
                                       = Stored(data, gv, a.to_iterate)]_vars

\* an additive call has added to a block with a stored value and then failed
\* at a block without one, which is still without one
C29_Witness ==
    /\ ret.op = "distribute_variable" /\ ret.err = "KeyError"
    /\ ret.args.additive
    /\ \E gv, hv \in Registered :
          /\ Selected(gv, ret.args.grids, ret.args.variables)
          /\ Selected(hv, ret.args.grids, ret.args.variables)
          /\ DofSet(gv) # {} /\ DofSet(hv) # {}
          /\ Stored(data, gv, ret.args.to_iterate).has
          /\ Stored(data, gv, ret.args.to_iterate).v # Slice(ret.args.values, gv)
          /\ ~Stored(data, hv, ret.args.to_iterate).has
          /\ ret.key = <<hv[2]>>

\* the number of occurrences of gv in the product of the lists of the call a
Occurrences(a, gv) == Cardinality({k \in 1..Len(ProductOf(a)) : ProductOf(a)[k] = gv})

(* C30: a distribute_variable call that returns writes every registered    *)
(* block exactly once with the default selection (grids and variables both *)
(* None), so that an additive call adds values[block range] once to each   *)
(* block; with explicit lists a block is written once per occurrence of    *)
(* its pair in the product of the lists, so that a grid or variable listed *)
(* twice has the additive increment applied twice.                         *)
C30_OncePerOccurrence ==
    [][Distributes /\ ret'.err = "none" =>
          LET a == ret'.args
          IN  \A gv \in Registered :
                  LET n == Occurrences(a, gv)
                      old == Stored(data, gv, a.to_iterate)
                      new == Stored(data', gv, a.to_iterate)
                  IN  /\ a.grids.none /\ a.variables.none => n = 1
                      /\ n = 0 => new = old
                      /\ n > 0 /\ ~a.additive => new = Slot(Slice(a.values, gv))
                      /\ n > 0 /\ a.additive =>
                            /\ old.has
                            /\ new = Slot([j \in 1..Width(gv) |->
                                              old.v[j] + n * Slice(a.values, gv)[j]])]_vars

\* the second call, additive, names a variable twice: the block holds the value
\* of the first call plus twice its slice of the second
C30_Witness ==
    /\ ret.op = "distribute_variable" /\ ret.err = "none"
    /\ ncalls = 2
    /\ ret.args.additive
    /\ ~ret.args.variables.none
    /\ Len(ret.args.variables.list) = 2
    /\ ret.args.variables.list[1] = ret.args.variables.list[2]
    /\ \E gv \in Registered, first \in TestVectors :
          /\ Occurrences(ret.args, gv) = 2
          /\ DofSet(gv) # {}
          /\ Stored(data, gv, ret.args.to_iterate) =
                Slot([j \in 1..Width(gv) |->
                         Slice(first, gv)[j] + 2 * Slice(ret.args.values, gv)[j]])

=============================================================================
